---- MODULE Spec2Model ----
(***************************************************************************)
(* State-machine model of backend/agent.js (answerWithAgent: the           *)
(* level-synchronous question expansion loop) and of the providers it      *)
(* awaits (backend/mcpClient.js callAskChatGPT, SerpAPI, OpenAI).          *)
(*                                                                         *)
(* Texts are sequences of one-element strings.  A question text is built   *)
(* from letters and whitespace; an answer text is built from tokens: "x"   *)
(* (an ordinary character), " " and "\n" (whitespace), the label           *)
(* "Sources:" and the fixed phrases the code searches for.  Every          *)
(* conversion of the code (trim, toLowerCase, replace, includes) is        *)
(* computed on these sequences.                                            *)
(***************************************************************************)
EXTENDS Integers, Sequences, FiniteSets, TLC

VARIABLES
  pc,               \* position of answerWithAgent: idle, awaiting, returned, rejected
  initialQuestion,  \* const initialQuestion (agent.js:386)
  answered,         \* Map key -> entry, as the sequence of its entries in insertion order
  children,         \* Map parentKey -> [{key, questionOriginal}]
  seen,             \* Set of keys
  totalGenerated,   \* let totalGenerated
  pocket,           \* let pocket
  tasks,            \* the async callbacks of uniquePocket.map, every round, in launch order
  round,            \* number of Promise.all rounds launched so far
  result,           \* the value answerWithAgent resolved with
  fnInput,          \* the argument of a helper function called on its own
  fnOutput,         \* whether that call has returned, and its value
  audit,            \* a call of auditAndPolish (crewaudit.js): its position and locals
  cancelRequested,  \* the client of POST /api/chat has gone away
  mcp,              \* mcpClient.js: clientPromise and the calls of callAskChatGPT
  ui,               \* ChatUI.jsx: the chat, its refs and its requests
  http              \* server.js: a request to POST /api/chat and its response

\* the variables of a call of a helper function on its own
fnVars == <<fnInput, fnOutput>>

\* the variables of the modules around answerWithAgent
otherVars == <<mcp, ui, http>>

vars == <<pc, initialQuestion, answered, children, seen, totalGenerated,
          pocket, tasks, round, result, fnInput, fnOutput, audit, cancelRequested,
          mcp, ui, http>>

----------------------------------------------------------------------------
(* Bounds of the model *)

\* longest list a decomposition or follow-up reply carries
MaxKids == 2

\* longest knowledge-base response, in tokens, isMcpNotFound is called on
MaxTokens == 3

\* longest list of an expansion reply taken on its own
MaxProposals == 7

\* longest string normalize is called on, on its own
MaxChars == 3

\* most calls of callAskChatGPT in one process
MaxCallers == 3

\* most requests one chat of the page sends
MaxSends == 3

\* most earlier turns of a chat whose payload is built
MaxTurns == 2

(* Program constants *)

MAX_DEPTH == 1

NUM_RESULTS == 5

----------------------------------------------------------------------------
(* JavaScript values and string functions *)

\* null / undefined
Null == <<"null">>

\* \s of a regular expression, and the characters String.prototype.trim removes
IsSpace(c) == c \in {" ", "\n"}

\* one character (or token) under toLowerCase / the i flag
Lower(c) ==
  CASE c = "A" -> "a"
    [] c = "B" -> "b"
    [] c = "C" -> "c"
    [] c = "Sources:" -> "sources:"
    [] c = "SOURCES:" -> "sources:"
    [] c = "Not available in our current document" -> "not available in our current document"
    [] c = "Error:" -> "error:"
    [] c = "Policy file not found" -> "policy file not found"
    [] OTHER -> c

RECURSIVE trimStart(_)
trimStart(s) ==
  IF s # <<>> /\ IsSpace(Head(s)) THEN trimStart(Tail(s)) ELSE s

RECURSIVE trimEnd(_)
trimEnd(s) ==
  IF s # <<>> /\ IsSpace(s[Len(s)]) THEN trimEnd(SubSeq(s, 1, Len(s) - 1)) ELSE s

\* String.prototype.trim
trim(s) == trimEnd(trimStart(s))

\* String(s || "")
Str(s) == IF s = Null THEN <<>> ELSE s

\* .replace(/\s+/g, " ")
RECURSIVE collapseSpaces(_)
collapseSpaces(s) ==
  IF s = <<>> THEN <<>>
  ELSE IF IsSpace(Head(s)) THEN <<" ">> \o collapseSpaces(trimStart(Tail(s)))
  ELSE <<Head(s)>> \o collapseSpaces(Tail(s))

RECURSIVE toLowerCase(_)
toLowerCase(s) ==
  IF s = <<>> THEN <<>> ELSE <<Lower(Head(s))>> \o toLowerCase(Tail(s))

\* variant: normalize without .replace(/\s+/g, " ")
normalizeNoCollapse(s) == toLowerCase(trim(Str(s)))

\* const normalize = (s) => String(s || "").trim().replace(/\s+/g, " ").toLowerCase()
normalize(s) == toLowerCase(collapseSpaces(trim(Str(s))))

\* t.includes(phrase), the phrase being one token
includes(t, phrase) == \E i \in 1..Len(t) : t[i] = phrase

\* array.filter(Boolean) over texts: drops null and ""
RECURSIVE filterBoolean(_)
filterBoolean(xs) ==
  IF xs = <<>> THEN <<>>
  ELSE IF Head(xs) = Null \/ Head(xs) = <<>> THEN filterBoolean(Tail(xs))
  ELSE <<Head(xs)>> \o filterBoolean(Tail(xs))

RECURSIVE mapStrTrim(_)
mapStrTrim(xs) ==
  IF xs = <<>> THEN <<>> ELSE <<trim(Str(Head(xs)))>> \o mapStrTrim(Tail(xs))

----------------------------------------------------------------------------
(* extractLatestUserQuestion *)

RECURSIVE extractFrom(_, _)
extractFrom(chat, i) ==
  IF i < 1 THEN <<>>
  ELSE IF chat[i].role = "user" /\ chat[i].isString /\ trim(chat[i].content) # <<>>
       THEN trim(chat[i].content)
       ELSE extractFrom(chat, i - 1)

RECURSIVE extractFromFirst(_, _)
extractFromFirst(chat, i) ==
  IF i > Len(chat) THEN <<>>
  ELSE IF chat[i].role = "user" /\ chat[i].isString /\ trim(chat[i].content) # <<>>
       THEN trim(chat[i].content)
       ELSE extractFromFirst(chat, i + 1)

\* the scan started at the wrong end
extractEarliestUserQuestion(chat) == extractFromFirst(chat, 1)

extractLatestUserQuestion(chat) == extractFrom(chat, Len(chat))

----------------------------------------------------------------------------
(* stripSourcesSection, isMcpNotFound *)

\* position of the leftmost match of /\n\s*Sources:/i at or after i; 0 when none
RECURSIVE sourcesMatch(_, _)
sourcesMatch(text, i) ==
  IF i > Len(text) THEN 0
  ELSE IF /\ text[i] = "\n"
          /\ LET rest == trimStart(SubSeq(text, i + 1, Len(text)))
             IN  rest # <<>> /\ Lower(Head(rest)) = "sources:"
       THEN i
       ELSE sourcesMatch(text, i + 1)

stripSourcesSection(text) ==
  IF text = Null \/ text = <<>> THEN <<>>
  ELSE LET m == sourcesMatch(text, 1)
       IN  trim(IF m = 0 THEN text ELSE SubSeq(text, 1, m - 1))

\* variant: without the "policy file not found" line
isMcpNotFoundPolicyIgnored(text) ==
  IF text = Null \/ text = <<>> THEN TRUE
  ELSE LET t == toLowerCase(text) IN
       \/ includes(t, "not available in our current document")
       \/ includes(t, "company information file not found")
       \/ includes(t, "no companies found in the knowledge base")
       \/ Head(t) = "error:"

isMcpNotFound(text) ==
  IF text = Null \/ text = <<>> THEN TRUE
  ELSE LET t == toLowerCase(text) IN
       IF includes(t, "not available in our current document") THEN TRUE
       ELSE IF includes(t, "company information file not found") THEN TRUE
       ELSE IF includes(t, "policy file not found") THEN FALSE
       ELSE IF includes(t, "no companies found in the knowledge base") THEN TRUE
       ELSE IF Head(t) = "error:" THEN TRUE
       ELSE FALSE

----------------------------------------------------------------------------
(* The providers: what a call can come back with, and what the wrapper     *)
(* functions of the code make of it                                        *)

SeqsUpTo(S, n) == UNION {[1..k -> S] : k \in 0..n}

\* the chat completion of isQuantifiable: the request fails, or its content
\* parses to no object, to {quantifiable: true} or to {quantifiable: false}
ClassifierReplies == {"throw", "malformed", "true", "false"}

\* return parsed?.quantifiable === true
isQuantifiable(reply) == reply = "true"

\* the MCP side of callAskChatGPT: the connection fails, the server has no
\* ask_chatgpt tool, or the tool result carries a text
KbTexts ==
  { <<>>,
    << " ", "x", "\n", "Sources:" >>,
    << "Not available in our current document" >> }

KbReplies ==
  { [kind |-> "connfail", text |-> <<>>], [kind |-> "notool", text |-> <<>>] }
    \cup { [kind |-> "text", text |-> t] : t \in KbTexts }

\* callAskChatGPT: throws unless the tool result has a non-empty text
callAskChatGPT(reply) ==
  IF reply.kind # "text" \/ reply.text = <<>>
  THEN [threw |-> TRUE, text |-> <<>>]
  ELSE [threw |-> FALSE, text |-> reply.text]

\* SerpAPI: no SERPAPI_API_KEY, a non-OK HTTP status, or a JSON body whose
\* organic_results are given by the link of each result ("" when it has none)
OrganicLists == { <<>>, << "u2", "", "u1" >> }

SearchReplies ==
  { [kind |-> "nokey", organic |-> <<>>], [kind |-> "httperr", organic |-> <<>>] }
    \cup { [kind |-> "json", organic |-> o] : o \in OrganicLists }

\* searchWeb(query, {num})
searchWeb(reply, num) ==
  IF reply.kind # "json"
  THEN [threw |-> TRUE, results |-> <<>>]
  ELSE [threw |-> FALSE,
        results |-> SubSeq(reply.organic, 1,
                           IF Len(reply.organic) < num THEN Len(reply.organic) ELSE num)]

\* the chat completion of answerFromWeb
SynthTexts ==
  { <<>>,
    << "x", "\n", "Sources:", " ", "x" >>,
    << "SOURCES:", "x" >> }

SynthReplies ==
  { [kind |-> "throw", text |-> <<>>] }
    \cup { [kind |-> "content", text |-> t] : t \in SynthTexts }

RECURSIVE linksOf(_)
linksOf(results) ==
  IF results = <<>> THEN <<>>
  ELSE IF Head(results) = "" THEN linksOf(Tail(results))
  ELSE <<Head(results)>> \o linksOf(Tail(results))

\* the fixed answers, each one token of an answer text (the code's first one
\* has an em dash where this module, in ASCII, writes "--")
NOT_ANSWERED == << "[Not answered -- non-quantifiable]" >>

NO_DATA_FOUND == << "No data found." >>

\* answerFromWeb once searchWeb returned no result
answerFromWebEmpty == [ok |-> FALSE, text |-> << "No web results found." >>, sources |-> <<>>]

\* answerFromWeb once the completion returned
answerFromWebDone(results, reply) ==
  [ok |-> TRUE, text |-> trim(reply.text), sources |-> linksOf(results)]

\* the texts an expansion reply can list
ProposalTexts ==
  { << "A" >>, << " ", "B" >>, << "c" >>, << " " >> }

ExpansionReplies ==
  { [kind |-> "throw", items |-> <<>>], [kind |-> "malformed", items |-> <<>>] }
    \cup { [kind |-> "array", items |-> l] : l \in SeqsUpTo(ProposalTexts, MaxKids) }

\* return Array.isArray(parsed) ? parsed.filter(Boolean) : []
decomposeToQuantifiable(reply) ==
  IF reply.kind = "array" THEN filterBoolean(reply.items) ELSE <<>>

\* return Array.isArray(parsed?.followups) ? parsed.followups : []
detectFollowupsFromAnswer(reply) ==
  IF reply.kind = "array" THEN reply.items ELSE <<>>

----------------------------------------------------------------------------
(* The state of answerWithAgent *)

\* variant: the seen check left out
isDuplicateNever(sn, qKey) == FALSE

\* if (seen.has(qKey)) continue;
isDuplicate(sn, qKey) == qKey \in sn

\* variant: addChild without its arr.some(...) check
addChildAlways(ch, parentKey, childKey, childOriginal) ==
  LET arr == IF parentKey \in DOMAIN ch THEN ch[parentKey] ELSE <<>>
  IN  [k \in DOMAIN ch \cup {parentKey} |->
         IF k = parentKey
         THEN Append(arr, [key |-> childKey, questionOriginal |-> childOriginal])
         ELSE ch[k]]

addChild(ch, parentKey, childKey, childOriginal) ==
  IF parentKey = Null \/ parentKey = <<>> THEN ch
  ELSE LET arr == IF parentKey \in DOMAIN ch THEN ch[parentKey] ELSE <<>>
       IN  [k \in DOMAIN ch \cup {parentKey} |->
              IF k = parentKey
              THEN IF \E x \in 1..Len(arr) : arr[x].key = childKey
                   THEN arr
                   ELSE Append(arr, [key |-> childKey, questionOriginal |-> childOriginal])
              ELSE ch[k]]

\* the for loop over pocket at the head of the while loop
RECURSIVE dedupPass(_, _, _, _)
dedupPass(pk, ch, sn, uniq) ==
  IF pk = <<>> THEN [children |-> ch, seen |-> sn, uniquePocket |-> uniq]
  ELSE LET node == Head(pk)
           q == trim(Str(node.questionOriginal))
           qKey == normalize(q)
           parentOriginal ==
             IF node.parentOriginal = Null \/ node.parentOriginal = <<>>
             THEN Null ELSE trim(node.parentOriginal)
           parentKey ==
             IF parentOriginal = Null \/ parentOriginal = <<>>
             THEN Null ELSE normalize(parentOriginal)
           ch1 == IF parentKey = Null \/ parentKey = <<>> THEN ch
                  ELSE addChild(ch, parentKey, qKey, q)
       IN  IF q = <<>> THEN dedupPass(Tail(pk), ch, sn, uniq)
           ELSE IF isDuplicate(sn, qKey) THEN dedupPass(Tail(pk), ch1, sn, uniq)
           ELSE dedupPass(Tail(pk), ch1, sn \cup {qKey},
                          Append(uniq, [questionOriginal |-> q,
                                        parentOriginal |-> parentOriginal,
                                        depth |-> node.depth]))

\* variant: the new entry put before the entries already held
answeredSetFirst(ans, e) == <<e>> \o ans

\* answered.set(key, entry): a Map keeps the place of a key it already holds
answeredSet(ans, e) ==
  IF \E i \in 1..Len(ans) : ans[i].key = e.key
  THEN [i \in 1..Len(ans) |-> IF ans[i].key = e.key THEN e ELSE ans[i]]
  ELSE Append(ans, e)

\* the async callback of uniquePocket.map, run up to its first await
Task(node, r) ==
  [ round |-> r,
    qOriginal |-> node.questionOriginal,
    parentOriginal |-> node.parentOriginal,
    depth |-> node.depth,
    pc |-> "classify",
    quantifiable |-> "?",
    kb |-> "none",
    kbChat |-> <<>>,
    kbText |-> <<>>,
    results |-> <<>>,
    threwAt |-> "",
    nKb |-> 0, nWeb |-> 0, nSet |-> 0,
    nExpand |-> 0, expandedBy |-> "", followupArg |-> Null,
    written |-> <<>>,
    nextNodes |-> <<>> ]

launch(uniq, r) == [j \in 1..Len(uniq) |-> Task(uniq[j], r)]

taskKey(t) == normalize(t.qOriginal)

\* variant: parentKey taken from the question itself
taskParentKeyOwn(t) == normalize(t.qOriginal)

\* const parentKey = parentOriginal ? normalize(parentOriginal) : null
taskParentKey(t) ==
  IF t.parentOriginal = Null \/ t.parentOriginal = <<>> THEN Null
  ELSE normalize(t.parentOriginal)

\* variant: the blocks listed from the last entry to the first
blocksReversed(ans) ==
  [i \in 1..Len(ans) |->
     [id |-> i - 1, question |-> ans[Len(ans) + 1 - i].questionOriginal,
      answer |-> ans[Len(ans) + 1 - i].answer, sources |-> ans[Len(ans) + 1 - i].sources]]

\* const blocks = Array.from(answered.values()).map(...); id is the index
blocksOf(ans) ==
  [i \in 1..Len(ans) |->
     [id |-> i - 1, question |-> ans[i].questionOriginal,
      answer |-> ans[i].answer, sources |-> ans[i].sources]]

\* no helper function called on its own
NoCall == [returned |-> FALSE, value |-> FALSE]

NoResult ==
  [ok |-> FALSE, error |-> "", blocks |-> <<>>, rendered |-> <<>>,
   stats |-> [questionsAnswered |-> 0, totalGenerated |-> 0, totalSeen |-> 0]]

\* the edges of key qKey: children.get(qKey) || []
kidsOf(ch, qKey) == IF qKey \in DOMAIN ch THEN ch[qKey] ELSE <<>>

\* render never returns: its recursion comes back to a key it is rendering,
\* and the call stack overflows (RangeError)
RECURSIVE renderOverflows(_, _, _)
renderOverflows(ch, qKey, path) ==
  \/ qKey \in path
  \/ \E x \in 1..Len(kidsOf(ch, qKey)) :
       renderOverflows(ch, kidsOf(ch, qKey)[x].key, path \cup {qKey})

\* function render(qOriginal, indent): the text as the list of its items, one
\* per question, in the order they are written
RECURSIVE render(_, _, _, _)
RECURSIVE renderKids(_, _, _, _)
render(ans, ch, qOriginal, indent) ==
  LET qKey == normalize(qOriginal)
      at == {e \in 1..Len(ans) : ans[e].key = qKey}
      item ==
        IF at # {}
        THEN LET entry == ans[CHOOSE e \in at : TRUE] IN
             [indent |-> indent, question |-> qOriginal,
              quantifiable |-> IF entry.quantifiable THEN "yes" ELSE "no",
              answer |-> entry.answer, source |-> entry.source]
        ELSE [indent |-> indent, question |-> qOriginal, quantifiable |-> "unknown",
              answer |-> << "[No entry generated]" >>, source |-> "null"]
  IN  <<item>> \o renderKids(ans, ch, kidsOf(ch, qKey), indent + 1)

\* for (const k of kids) out += render(k.questionOriginal, indent + 1)
renderKids(ans, ch, kids, indent) ==
  IF kids = <<>> THEN <<>>
  ELSE render(ans, ch, Head(kids).questionOriginal, indent) \o
         renderKids(ans, ch, Tail(kids), indent)

\* variant: totalSeen taken from the counter of generated questions
returnedSeenGenerated(ans, ch, tg, root) ==
  [ok |-> TRUE, error |-> "", blocks |-> blocksOf(ans),
   rendered |-> render(ans, ch, trim(root), 0),
   stats |-> [questionsAnswered |-> Len(ans), totalGenerated |-> tg,
              totalSeen |-> tg]]

\* return { ok: true, blocks, rendered, stats }
returned(ans, ch, tg, root) ==
  [ok |-> TRUE, error |-> "", blocks |-> blocksOf(ans),
   rendered |-> render(ans, ch, trim(root), 0),
   stats |-> [questionsAnswered |-> Len(ans), totalGenerated |-> tg,
              totalSeen |-> Len(ans)]]

\* the statements after the while loop: the run returns, unless render throws
afterLoop(ans, ch, tg, root) ==
  IF renderOverflows(ch, normalize(trim(root)), {})
  THEN [pc |-> "rejected", result |-> NoResult]
  ELSE [pc |-> "returned", result |-> returned(ans, ch, tg, root)]

\* the variables of answerWithAgent
engineVars == <<pc, initialQuestion, answered, children, seen, totalGenerated,
                pocket, tasks, round, result>>

\* answerWithAgent not yet called
Idle ==
  /\ pc = "idle"
  /\ initialQuestion = <<>>
  /\ answered = <<>>
  /\ children = <<>>
  /\ seen = {}
  /\ totalGenerated = 0
  /\ pocket = <<>>
  /\ tasks = <<>>
  /\ round = 0
  /\ result = NoResult

\* no call of auditAndPolish
\* mcpClient.js as loaded: let clientPromise = null, and no call made
NoMcp == [clientPromise |-> "null", nClients |-> 0, nConnects |-> 0, calls |-> <<>>]

\* ChatUI as mounted: one chat without turns, no request made
NoUi ==
  [ chat |-> [draft |-> <<>>, sending |-> FALSE, turns |-> <<>>],
    chatsRef |-> [draft |-> <<>>, sending |-> FALSE, turns |-> <<>>],
    aborter |-> 0,
    requests |-> <<>> ]

\* a request body without message and messages
NoBody == [message |-> Null, isArray |-> FALSE, messages |-> <<>>]

\* no request received
NoHttp == [pc |-> "idle", body |-> NoBody, chat |-> <<>>, responses |-> <<>>]

\* no response seen yet
NoReply ==
  [kind |-> "", status |-> "", payload |-> [form |-> "null", answer |-> Null, sources |-> Null]]

NoAudit ==
  [ pc |-> "idle",
    request |-> [quantifiable |-> FALSE, draftAnswer |-> <<>>, sources |-> <<>>],
    configured |-> FALSE,
    i |-> 0,
    kickoff |-> "",
    last |-> NoReply,
    nStatus |-> 0, nSleep |-> 0, elapsed |-> 0,
    result |-> [ok |-> FALSE, answer |-> <<>>, sources |-> <<>>] ]

\* no call of auditAndPolish under way, and the client still there
Undisturbed ==
  /\ audit = NoAudit /\ cancelRequested = FALSE
  /\ mcp = NoMcp /\ ui = NoUi /\ http = NoHttp

\* variant: auditAndPolish called by a step of answerWithAgent
auditByEngineCalled(a) == [a EXCEPT !.pc = "kickoff"]

\* what a step of answerWithAgent does with auditAndPolish: agent.js imports
\* it and never calls it
auditByEngine(a) == a

Init ==
  /\ Idle
  /\ fnInput = <<>>
  /\ fnOutput = NoCall
  /\ Undisturbed

----------------------------------------------------------------------------
(* The chats answerWithAgent is called with *)

Msg(r, c) == [role |-> r, isString |-> TRUE, content |-> c]

\* a message whose content is not a string
MsgObject(r) == [role |-> r, isString |-> FALSE, content |-> Null]

Chats ==
  { <<>>,
    << Msg("assistant", << "b" >>) >>,
    << Msg("user", << " ", "\n" >>) >>,
    << MsgObject("user") >>,
    << Msg("system", << "c" >>), Msg("user", << >>) >>,
    << Msg("user", << "a" >>) >>,
    << Msg("user", << "c" >>), Msg("assistant", << "b" >>), Msg("user", << " ", "a", " " >>) >>,
    << Msg("user", << "a" >>), Msg("user", << " " >>), MsgObject("user"),
       Msg("assistant", << "c" >>) >> }

----------------------------------------------------------------------------
(* answerWithAgent *)

\* One pass of the while loop from its head with the pocket pk, up to the
\* await of Promise.all, or past the loop to the return (or to the throw of
\* render) when the loop ends.  ans and tg are
\* answered and totalGenerated as they stand.
LoopIteration(pk, ans, tg) ==
  /\ pocket' = pk
  /\ IF pk = <<>>
     THEN /\ pc' = afterLoop(ans, children, tg, initialQuestion').pc
          /\ result' = afterLoop(ans, children, tg, initialQuestion').result
          /\ UNCHANGED <<children, seen, tasks, round>>
     ELSE LET d == dedupPass(pk, children, seen, <<>>) IN
          /\ children' = d.children
          /\ seen' = d.seen
          /\ IF d.uniquePocket = <<>>
             THEN /\ pc' = afterLoop(ans, d.children, tg, initialQuestion').pc
                  /\ result' = afterLoop(ans, d.children, tg, initialQuestion').result
                  /\ UNCHANGED <<tasks, round>>
             ELSE /\ pc' = "awaiting"
                  /\ tasks' = tasks \o launch(d.uniquePocket, round + 1)
                  /\ round' = round + 1
                  /\ UNCHANGED result

\* the call answerWithAgent(chat), up to its first await or its return
Begin(chat) ==
  /\ pc = "idle"
  /\ UNCHANGED <<fnVars, cancelRequested, otherVars>>
  /\ audit' = auditByEngine(audit)
  /\ LET q == extractLatestUserQuestion(chat) IN
     IF q = <<>>
     THEN /\ pc' = "returned"
          /\ result' = [NoResult EXCEPT !.error = "No user question found."]
          /\ UNCHANGED <<initialQuestion, answered, children, seen, totalGenerated,
                         pocket, tasks, round>>
     ELSE /\ initialQuestion' = q
          /\ totalGenerated' = 1
          /\ UNCHANGED answered
          /\ LoopIteration(<< [questionOriginal |-> trim(q), parentOriginal |-> Null,
                               depth |-> 0] >>, answered, 1)

\* variant: the loop goes on as soon as one callback has completed
anyFulfilled(ts, r) ==
  \E i \in 1..Len(ts) : ts[i].round = r /\ ts[i].pc = "done"

\* await Promise.all: every callback of the round has completed
allFulfilled(ts, r) ==
  \A i \in 1..Len(ts) : ts[i].round = r => ts[i].pc = "done"

RECURSIVE flatNextNodes(_, _)
flatNextNodes(ts, r) ==
  IF ts = <<>> THEN <<>>
  ELSE (IF Head(ts).round = r /\ Head(ts).pc = "done" THEN Head(ts).nextNodes ELSE <<>>)
         \o flatNextNodes(Tail(ts), r)

\* Promise.all fulfilled: pocket = results.flatMap(...), and the loop goes on
RoundSettled ==
  /\ pc = "awaiting"
  /\ allFulfilled(tasks, round)
  /\ UNCHANGED <<initialQuestion, answered, totalGenerated, fnInput, fnOutput,
                 cancelRequested, otherVars>>
  /\ audit' = auditByEngine(audit)
  /\ LoopIteration(flatNextNodes(tasks, round), answered, totalGenerated)

\* Promise.all rejected with the first callback that threw: answerWithAgent
\* has no try/catch, so its promise rejects
RunRejects ==
  /\ pc = "awaiting"
  /\ \E i \in 1..Len(tasks) : tasks[i].round = round /\ tasks[i].pc = "threw"
  /\ pc' = "rejected"
  /\ UNCHANGED <<initialQuestion, answered, children, seen, totalGenerated,
                 pocket, tasks, round, result, fnInput, fnOutput, cancelRequested, otherVars>>
  /\ audit' = auditByEngine(audit)

----------------------------------------------------------------------------
(* The callback of uniquePocket.map, one action per await that completes *)

entryOf(t, quant, ans, src, srcs) ==
  [ key |-> taskKey(t),
    questionOriginal |-> t.qOriginal,
    quantifiable |-> quant,
    answer |-> ans,
    source |-> src,
    sources |-> srcs,
    parentOriginal |-> t.parentOriginal,
    parentKey |-> taskParentKey(t) ]

\* the callback passes entry e to answered.set
wrote(t, e) == [t EXCEPT !.written = Append(@, e)]

\* an await that throws ends the callback: its promise rejects
threw(t, at) == [t EXCEPT !.pc = "threw", !.threwAt = at]

\* variant: the depth check left out
expandAlways(depth) == TRUE

\* if (depth < MAX_DEPTH)
mayExpand(depth) == depth < MAX_DEPTH

\* variant: the proposed nodes given the depth of the proposing question
nextNodesSameDepth(t, subs) ==
  LET qs == filterBoolean(mapStrTrim(subs))
  IN  [j \in 1..Len(qs) |->
         [questionOriginal |-> qs[j], parentOriginal |-> t.qOriginal,
          depth |-> t.depth]]

\* subs.map(String(..).trim()).filter(Boolean).map(node of depth + 1)
nextNodesOf(t, subs) ==
  LET qs == filterBoolean(mapStrTrim(subs))
  IN  [j \in 1..Len(qs) |->
         [questionOriginal |-> qs[j], parentOriginal |-> t.qOriginal,
          depth |-> t.depth + 1]]

\* the callback after answered.set: it calls the expansion provider pcNext
\* when the depth allows (detectFollowupsFromAnswer with the local answerText),
\* and returns with no next node otherwise
afterSet(t, pcNext, answerText) ==
  IF mayExpand(t.depth)
  THEN [t EXCEPT !.pc = pcNext, !.nSet = @ + 1, !.nExpand = @ + 1,
                 !.expandedBy = pcNext,
                 !.followupArg = IF pcNext = "followup" THEN answerText ELSE Null]
  ELSE [t EXCEPT !.pc = "done", !.nSet = @ + 1]

\* variant: the non-quantifiable branch without its return
nonQuantifiableFallsThrough(t) ==
  [t EXCEPT !.pc = "kb", !.quantifiable = "no", !.nSet = @ + 1, !.nKb = @ + 1]

\* variant: the non-quantifiable branch expanded by follow-ups
nonQuantifiableFollowups(t) ==
  afterSet([t EXCEPT !.quantifiable = "no"], "followup", NOT_ANSWERED)

\* the non-quantifiable branch after answered.set: expand by decomposition
\* and return, without any resolver call
nonQuantifiableDone(t) == afterSet([t EXCEPT !.quantifiable = "no"], "decompose", Null)

\* variant: the web resolver called without the knowledge base
kbFirstSkipped(t) == [t EXCEPT !.pc = "search", !.quantifiable = "yes", !.nWeb = @ + 1]

\* variant: the question of the parent sent along as an earlier turn
startResolveWithParent(t) ==
  [t EXCEPT !.pc = "kb", !.quantifiable = "yes", !.nKb = @ + 1,
            !.kbChat = << Msg("user", Str(t.parentOriginal)), Msg("user", t.qOriginal) >>]

\* a quantifiable question: callAskChatGPT([{role: "user", content: qOriginal}])
\* is called first
startResolve(t) ==
  [t EXCEPT !.pc = "kb", !.quantifiable = "yes", !.nKb = @ + 1,
            !.kbChat = << Msg("user", t.qOriginal) >>]

\* await isQuantifiable(qOriginal)
ClassifierReturns(i, reply) ==
  /\ tasks[i].pc = "classify"
  /\ UNCHANGED <<pc, initialQuestion, children, seen, totalGenerated, pocket, round, result,
                 fnInput, fnOutput, cancelRequested, otherVars>>
  /\ audit' = auditByEngine(audit)
  /\ IF reply = "throw"
     THEN /\ tasks' = [tasks EXCEPT ![i] = threw(tasks[i], "classify")]
          /\ UNCHANGED answered
     ELSE IF ~isQuantifiable(reply)
     THEN LET e == entryOf(tasks[i], FALSE, NOT_ANSWERED, "null", <<>>) IN
          /\ answered' = answeredSet(answered, e)
          /\ tasks' = [tasks EXCEPT ![i] = nonQuantifiableDone(wrote(tasks[i], e))]
     ELSE /\ tasks' = [tasks EXCEPT ![i] = startResolve(tasks[i])]
          /\ UNCHANGED answered

\* variant: the counter bumped once per expansion call that proposed something
generatedOncePerCall(tg, next) == IF next = <<>> THEN tg ELSE tg + 1

\* totalGenerated++ in the map over the proposals that are left
generated(tg, next) == tg + Len(next)

\* await decomposeToQuantifiable(qOriginal)
DecomposerReturns(i, reply) ==
  /\ tasks[i].pc = "decompose"
  /\ UNCHANGED <<pc, initialQuestion, answered, children, seen, pocket, round, result,
                 fnInput, fnOutput, cancelRequested, otherVars>>
  /\ audit' = auditByEngine(audit)
  /\ IF reply.kind = "throw"
     THEN /\ tasks' = [tasks EXCEPT ![i] = threw(tasks[i], "decompose")]
          /\ UNCHANGED totalGenerated
     ELSE LET next == nextNodesOf(tasks[i], decomposeToQuantifiable(reply)) IN
          /\ tasks' = [tasks EXCEPT ![i].pc = "done", ![i].nextNodes = next]
          /\ totalGenerated' = generated(totalGenerated, next)

\* variant: callAskChatGPT awaited outside the try block
kbThrowPropagates(t, r) ==
  IF r.threw THEN [t EXCEPT !.pc = "threw", !.threwAt = "kb", !.kb = "threw"]
  ELSE IF isMcpNotFound(r.text)
  THEN [t EXCEPT !.pc = "search", !.kb = "notfound", !.kbText = r.text, !.nWeb = @ + 1]
  ELSE [t EXCEPT !.kb = "answer", !.kbText = r.text]

\* the try block around callAskChatGPT: a thrown call and a not-found text
\* both reach the catch block, which calls answerFromWeb
afterKb(t, r) ==
  IF r.threw THEN [t EXCEPT !.pc = "search", !.kb = "threw", !.nWeb = @ + 1]
  ELSE IF isMcpNotFound(r.text)
  THEN [t EXCEPT !.pc = "search", !.kb = "notfound", !.kbText = r.text, !.nWeb = @ + 1]
  ELSE [t EXCEPT !.kb = "answer", !.kbText = r.text]

\* answerText = String(mcpAnswer || "").trim()
kbAnswer(text) == trim(Str(text))

\* await callAskChatGPT([{role: "user", content: qOriginal}])
KbReturns(i, reply) ==
  /\ tasks[i].pc = "kb"
  /\ UNCHANGED <<pc, initialQuestion, children, seen, totalGenerated, pocket, round, result,
                 fnInput, fnOutput, cancelRequested, otherVars>>
  /\ audit' = auditByEngine(audit)
  /\ LET r == callAskChatGPT(reply)
         t == afterKb(tasks[i], r)
     IN  IF t.kb = "answer"
         THEN LET e == entryOf(t, TRUE, kbAnswer(r.text), "mcp", <<>>) IN
              /\ answered' = answeredSet(answered, e)
              /\ tasks' = [tasks EXCEPT ![i] = afterSet(wrote(t, e), "followup",
                                                        kbAnswer(r.text))]
         ELSE /\ tasks' = [tasks EXCEPT ![i] = t]
              /\ UNCHANGED answered

\* variant: the text answerFromWeb returned is kept whatever web.ok says
webAnswerTextAsReturned(web) == stripSourcesSection(web.text)

\* answerText = web.ok ? stripSourcesSection(web.text) : "No data found."
webAnswerText(web) ==
  IF web.ok THEN stripSourcesSection(web.text) ELSE NO_DATA_FOUND

\* sources = web.sources || []
webSources(web) == web.sources

\* answerFromWeb: await searchWeb(question, {num: 5})
SearchReturns(i, reply) ==
  /\ tasks[i].pc = "search"
  /\ UNCHANGED <<pc, initialQuestion, children, seen, totalGenerated, pocket, round, result,
                 fnInput, fnOutput, cancelRequested, otherVars>>
  /\ audit' = auditByEngine(audit)
  /\ LET r == searchWeb(reply, NUM_RESULTS) IN
     IF r.threw
     THEN /\ tasks' = [tasks EXCEPT ![i] = threw(tasks[i], "search")]
          /\ UNCHANGED answered
     ELSE IF r.results = <<>>
     THEN LET e == entryOf(tasks[i], TRUE, webAnswerText(answerFromWebEmpty), "web",
                           webSources(answerFromWebEmpty)) IN
          /\ answered' = answeredSet(answered, e)
          /\ tasks' = [tasks EXCEPT ![i] = afterSet(wrote(tasks[i], e), "followup",
                                                    webAnswerText(answerFromWebEmpty))]
     ELSE /\ tasks' = [tasks EXCEPT ![i].pc = "synth", ![i].results = r.results]
          /\ UNCHANGED answered

\* answerFromWeb: await openai.chat.completions.create(...)
SynthReturns(i, reply) ==
  /\ tasks[i].pc = "synth"
  /\ UNCHANGED <<pc, initialQuestion, children, seen, totalGenerated, pocket, round, result,
                 fnInput, fnOutput, cancelRequested, otherVars>>
  /\ audit' = auditByEngine(audit)
  /\ IF reply.kind = "throw"
     THEN /\ tasks' = [tasks EXCEPT ![i] = threw(tasks[i], "synth")]
          /\ UNCHANGED answered
     ELSE LET web == answerFromWebDone(tasks[i].results, reply)
              e == entryOf(tasks[i], TRUE, webAnswerText(web), "web", webSources(web)) IN
          /\ answered' = answeredSet(answered, e)
          /\ tasks' = [tasks EXCEPT ![i] = afterSet(wrote(tasks[i], e), "followup",
                                                    webAnswerText(web))]

\* await detectFollowupsFromAnswer(qOriginal, answerText)
FollowupReturns(i, reply) ==
  /\ tasks[i].pc = "followup"
  /\ UNCHANGED <<pc, initialQuestion, answered, children, seen, pocket, round, result,
                 fnInput, fnOutput, cancelRequested, otherVars>>
  /\ audit' = auditByEngine(audit)
  /\ IF reply.kind = "throw"
     THEN /\ tasks' = [tasks EXCEPT ![i] = threw(tasks[i], "followup")]
          /\ UNCHANGED totalGenerated
     ELSE LET next == nextNodesOf(tasks[i], detectFollowupsFromAnswer(reply)) IN
          /\ tasks' = [tasks EXCEPT ![i].pc = "done", ![i].nextNodes = next]
          /\ totalGenerated' = generated(totalGenerated, next)

Next ==
  \/ \E chat \in Chats : Begin(chat)
  \/ RoundSettled
  \/ RunRejects
  \/ \E i \in 1..Len(tasks), reply \in ClassifierReplies : ClassifierReturns(i, reply)
  \/ \E i \in 1..Len(tasks), reply \in ExpansionReplies : DecomposerReturns(i, reply)
  \/ \E i \in 1..Len(tasks), reply \in KbReplies : KbReturns(i, reply)
  \/ \E i \in 1..Len(tasks), reply \in SearchReplies : SearchReturns(i, reply)
  \/ \E i \in 1..Len(tasks), reply \in SynthReplies : SynthReturns(i, reply)
  \/ \E i \in 1..Len(tasks), reply \in ExpansionReplies : FollowupReturns(i, reply)

Spec == Init /\ [][Next]_vars

----------------------------------------------------------------------------
(* The run under POST /api/chat, whose client may go away *)

\* the client closes the connection while the handler awaits answerWithAgent;
\* server.js registers no listener for it and hands the run no signal
RequestCancel ==
  /\ pc = "awaiting"
  /\ ~cancelRequested
  /\ cancelRequested' = TRUE
  /\ UNCHANGED <<engineVars, fnVars, audit, otherVars>>

NextCancel ==
  \/ RequestCancel
  \/ \E chat \in Chats : Begin(chat)
  \/ RoundSettled
  \/ RunRejects
  \/ \E i \in 1..Len(tasks), reply \in ClassifierReplies : ClassifierReturns(i, reply)
  \/ \E i \in 1..Len(tasks), reply \in ExpansionReplies : DecomposerReturns(i, reply)
  \/ \E i \in 1..Len(tasks), reply \in KbReplies : KbReturns(i, reply)
  \/ \E i \in 1..Len(tasks), reply \in SearchReplies : SearchReturns(i, reply)
  \/ \E i \in 1..Len(tasks), reply \in SynthReplies : SynthReturns(i, reply)
  \/ \E i \in 1..Len(tasks), reply \in ExpansionReplies : FollowupReturns(i, reply)

SpecCancel == Init /\ [][NextCancel]_vars

----------------------------------------------------------------------------
(* isMcpNotFound called on its own, on any response text *)

\* the tokens of a knowledge-base response: an ordinary character and the
\* phrases isMcpNotFound looks for, some of them capitalised
ResponseTokens ==
  { "x",
    "Not available in our current document",
    "company information file not found",
    "Policy file not found",
    "no companies found in the knowledge base",
    "Error:" }

ResponseTexts == {Null} \cup SeqsUpTo(ResponseTokens, MaxTokens)

InitIsMcpNotFound ==
  /\ Idle
  /\ fnInput \in ResponseTexts
  /\ fnOutput = NoCall
  /\ Undisturbed

\* isMcpNotFound(fnInput) returns
CallIsMcpNotFound ==
  /\ ~fnOutput.returned
  /\ fnOutput' = [returned |-> TRUE, value |-> isMcpNotFound(fnInput)]
  /\ UNCHANGED <<fnInput, engineVars, audit, cancelRequested, otherVars>>

NextIsMcpNotFound == CallIsMcpNotFound

SpecIsMcpNotFound == InitIsMcpNotFound /\ [][NextIsMcpNotFound]_vars

----------------------------------------------------------------------------
(* One expansion of a resolved question, on any list the provider returns *)

\* the replies of an expansion provider that carry a list of questions
ListReplies ==
  { [kind |-> "array", items |-> l] :
      l \in SeqsUpTo({ << "A" >>, << "c" >> }, MaxProposals) }

\* the callback of a root question "a"
rootTask == Task([questionOriginal |-> << "a" >>, parentOriginal |-> Null, depth |-> 0], 1)

InitExpansion ==
  /\ Idle
  /\ fnInput \in ListReplies
  /\ fnOutput = NoCall
  /\ Undisturbed

\* nextNodes of the quantifiable branch: detectFollowupsFromAnswer returned fnInput
FollowupsExpand ==
  /\ ~fnOutput.returned
  /\ fnOutput' = [returned |-> TRUE,
                  value |-> [by |-> "followup",
                             nextNodes |-> nextNodesOf(rootTask,
                                              detectFollowupsFromAnswer(fnInput))]]
  /\ UNCHANGED <<fnInput, engineVars, audit, cancelRequested, otherVars>>

\* nextNodes of the non-quantifiable branch: decomposeToQuantifiable returned
\* what it makes of fnInput
DecomposerExpands ==
  /\ ~fnOutput.returned
  /\ fnOutput' = [returned |-> TRUE,
                  value |-> [by |-> "decompose",
                             nextNodes |-> nextNodesOf(rootTask,
                                              decomposeToQuantifiable(fnInput))]]
  /\ UNCHANGED <<fnInput, engineVars, audit, cancelRequested, otherVars>>

NextExpansion ==
  \/ FollowupsExpand
  \/ DecomposerExpands

SpecExpansion == InitExpansion /\ [][NextExpansion]_vars

----------------------------------------------------------------------------
(* normalize called on its own, on any string *)

\* null or undefined, and the strings of letters and whitespace
NormalizeInputs == {Null} \cup SeqsUpTo({"a", "A", "b", " ", "\n"}, MaxChars)

InitNormalize ==
  /\ Idle
  /\ fnInput \in NormalizeInputs
  /\ fnOutput = NoCall
  /\ Undisturbed

\* normalize(fnInput) returns, and normalize of what it returned
CallNormalize ==
  /\ ~fnOutput.returned
  /\ fnOutput' = [returned |-> TRUE,
                  value |-> [key |-> normalize(fnInput),
                             again |-> normalize(normalize(fnInput))]]
  /\ UNCHANGED <<fnInput, engineVars, audit, cancelRequested, otherVars>>

NextNormalize == CallNormalize

SpecNormalize == InitNormalize /\ [][NextNormalize]_vars

----------------------------------------------------------------------------
(* server.js: POST /api/chat around answerWithAgent.  The chat parseChat     *)
(* returns is the empty sequence where the code has null.                    *)

\* req.body: {message, messages}, messages an array or not
Bodies ==
  { NoBody,
    [message |-> << " " >>, isArray |-> FALSE, messages |-> <<>>],
    [message |-> << " ", "a" >>, isArray |-> TRUE, messages |-> <<>>],
    [message |-> Null, isArray |-> TRUE,
     messages |-> << Msg("tool", << "x" >>), MsgObject("user"), Msg("user", << " " >>) >>],
    [message |-> Null, isArray |-> TRUE, messages |-> << Msg("assistant", << "b" >>) >>],
    [message |-> Null, isArray |-> TRUE,
     messages |-> << Msg("user", << " ", "a", " " >>), Msg("tool", << "x" >>),
                     Msg("assistant", << "b" >>) >>] }

\* the filter of parseChat
keptByParseChat(m) ==
  /\ m.role \in {"user", "assistant", "system"}
  /\ m.isString
  /\ trim(m.content) # <<>>

\* messages.filter(...).map((m) => ({role: m.role, content: m.content.trim()}))
RECURSIVE filterAndTrim(_)
filterAndTrim(ms) ==
  IF ms = <<>> THEN <<>>
  ELSE (IF keptByParseChat(Head(ms))
        THEN << Msg(Head(ms).role, trim(Head(ms).content)) >> ELSE <<>>)
         \o filterAndTrim(Tail(ms))

\* parseChat: the chat, or the empty sequence for null
parseChat(body) ==
  IF body.isArray /\ body.messages # <<>> THEN filterAndTrim(body.messages)
  ELSE IF body.message # Null /\ trim(body.message) # <<>>
  THEN << Msg("user", trim(body.message)) >>
  ELSE <<>>

\* res.status(code).json({ok, ...}); blocks and stats only in the 200 response
jsonResponse(code, ok, res) ==
  [status |-> code, ok |-> ok,
   error |-> IF ok THEN "" ELSE "error",
   blocks |-> IF ok THEN res.blocks ELSE <<>>,
   stats |-> IF ok THEN res.stats ELSE NoResult.stats]

\* the handler, up to its call of answerWithAgent or to the 400 response
HttpReceive(body) ==
  /\ http.pc = "idle"
  /\ pc = "idle"
  /\ http' = LET chat == parseChat(body) IN
             IF chat = <<>>
             THEN [http EXCEPT !.pc = "done", !.body = body,
                               !.responses = Append(@, jsonResponse(400, FALSE, NoResult))]
             ELSE [http EXCEPT !.pc = "awaiting", !.body = body, !.chat = chat]
  /\ UNCHANGED <<engineVars, fnVars, audit, cancelRequested, mcp, ui>>

\* variant: every result of the agent answered with status 200
respondAlways200(p, res) == jsonResponse(200, res.ok, res)

\* what the handler sends once answerWithAgent has settled: the catch block
\* when it threw, else by result.ok
respond(p, res) ==
  IF p = "rejected" THEN jsonResponse(502, FALSE, NoResult)
  ELSE IF ~res.ok THEN jsonResponse(400, FALSE, NoResult)
  ELSE jsonResponse(200, TRUE, res)

\* const result = await answerWithAgent(chat) settles, and the response
HttpResponds ==
  /\ http.pc = "awaiting"
  /\ pc \in {"returned", "rejected"}
  /\ http' = [http EXCEPT !.pc = "done", !.responses = Append(@, respond(pc, result))]
  /\ UNCHANGED <<engineVars, fnVars, audit, cancelRequested, mcp, ui>>

InitHttp == Init

NextHttp ==
  \/ \E body \in Bodies : HttpReceive(body)
  \/ http.pc = "awaiting" /\ Begin(http.chat)
  \/ HttpResponds
  \/ RoundSettled
  \/ RunRejects
  \/ \E i \in 1..Len(tasks), reply \in ClassifierReplies : ClassifierReturns(i, reply)
  \/ \E i \in 1..Len(tasks), reply \in ExpansionReplies : DecomposerReturns(i, reply)
  \/ \E i \in 1..Len(tasks), reply \in KbReplies : KbReturns(i, reply)
  \/ \E i \in 1..Len(tasks), reply \in SearchReplies : SearchReturns(i, reply)
  \/ \E i \in 1..Len(tasks), reply \in SynthReplies : SynthReturns(i, reply)
  \/ \E i \in 1..Len(tasks), reply \in ExpansionReplies : FollowupReturns(i, reply)

SpecHttp == InitHttp /\ [][NextHttp]_vars

----------------------------------------------------------------------------
(* ChatUI.jsx: buildPayloadMessagesFromTurns called on its own, and what    *)
(* the server makes of the payload                                          *)

SANITIZED_PREFIX == "### SANITIZED ANSWER:"

NOT_ENOUGH_INFORMATION == << "Not enough information in the retrieved snippets." >>

\* BAD_ANSWER_STRINGS.has(answer.trim())
isBadAnswerText(answer) ==
  answer # Null /\ trim(answer) \in {NOT_ENOUGH_INFORMATION, NOT_ANSWERED}

\* stripSanitizedPrefix: the text after the prefix and the whitespace that
\* follows it, or the text as it is when it does not begin with the prefix
stripSanitizedPrefix(text) ==
  IF text = Null THEN <<>>
  ELSE LET trimmedStart == trimStart(text) IN
       IF trimmedStart = <<>> \/ Head(trimmedStart) # SANITIZED_PREFIX THEN text
       ELSE trimStart(Tail(trimmedStart))

\* the callback of blocks.map in filterGoodBlocks
cleanedBlock(b) == [b EXCEPT !.answer = stripSanitizedPrefix(b.answer)]

\* the callback of .filter in filterGoodBlocks
isGoodBlock(b) == trim(b.answer) # <<>> /\ ~isBadAnswerText(b.answer)

\* variant: filterGoodBlocks without its isBadAnswerText check
RECURSIVE filterNonBlankBlocks(_)
filterNonBlankBlocks(blocks) ==
  IF blocks = <<>> THEN <<>>
  ELSE (IF trim(cleanedBlock(Head(blocks)).answer) # <<>>
        THEN << cleanedBlock(Head(blocks)) >> ELSE <<>>)
         \o filterNonBlankBlocks(Tail(blocks))

RECURSIVE filterGoodBlocks(_)
filterGoodBlocks(blocks) ==
  IF blocks = <<>> THEN <<>>
  ELSE (IF isGoodBlock(cleanedBlock(Head(blocks)))
        THEN << cleanedBlock(Head(blocks)) >> ELSE <<>>)
         \o filterGoodBlocks(Tail(blocks))

\* goodBlocks.map(answer).filter(Boolean).join("\n\n")
RECURSIVE joinAnswers(_)
joinAnswers(blocks) ==
  IF blocks = <<>> THEN <<>>
  ELSE IF Head(blocks).answer = <<>> THEN joinAnswers(Tail(blocks))
  ELSE LET rest == joinAnswers(Tail(blocks)) IN
       IF rest = <<>> THEN Head(blocks).answer
       ELSE Head(blocks).answer \o << "\n", "\n" >> \o rest

RECURSIVE buildPayloadMessagesFromTurns(_, _)
buildPayloadMessagesFromTurns(turns, newUserText) ==
  IF turns = <<>> THEN << Msg("user", newUserText) >>
  ELSE LET t == Head(turns)
           answers == joinAnswers(filterGoodBlocks(t.blocks))
       IN  << Msg("user", t.userText) >>
             \o (IF trim(answers) # <<>> THEN << Msg("assistant", answers) >> ELSE <<>>)
             \o buildPayloadMessagesFromTurns(Tail(turns), newUserText)

\* a block of a turn, by its answer (null when it is not a string)
Block(answer) == [answer |-> answer]

\* the blocks a turn can hold: the pending block, answers, sentinels, the
\* sanitized prefix before an answer or a sentinel, an answer that is no string
BlockLists ==
  { << Block(<<>>) >>,
    << Block(<< "x" >>) >>,
    << Block(NOT_ANSWERED), Block(<< " " >> \o NOT_ENOUGH_INFORMATION) >>,
    << Block(<< SANITIZED_PREFIX, " " >> \o NOT_ANSWERED) >>,
    << Block(<< " ", SANITIZED_PREFIX, "\n", "x" >>), Block(<< "x", " " >>) >>,
    << Block(<< SANITIZED_PREFIX >>), Block(Null) >>,
    << Block(NOT_ANSWERED), Block(<< "x" >>) >>,
    << Block(<< "Error:" >>) >> }

Turns == { [userText |-> << "c" >>, blocks |-> bl] : bl \in BlockLists }

InitPayload ==
  /\ Idle
  /\ fnInput \in { [turns |-> ts, text |-> << "a" >>] : ts \in SeqsUpTo(Turns, MaxTurns) }
  /\ fnOutput = NoCall
  /\ Undisturbed

\* sendMessage builds the payload; parseChat and extractLatestUserQuestion
\* read it on the server
BuildPayload ==
  /\ ~fnOutput.returned
  /\ LET msgs == buildPayloadMessagesFromTurns(fnInput.turns, fnInput.text) IN
     fnOutput' =
       [returned |-> TRUE,
        value |-> [messages |-> msgs,
                   question |-> extractLatestUserQuestion(
                                  parseChat([message |-> Null, isArray |-> TRUE,
                                             messages |-> msgs]))]]
  /\ UNCHANGED <<fnInput, engineVars, audit, cancelRequested, otherVars>>

NextPayload == BuildPayload

SpecPayload == InitPayload /\ [][NextPayload]_vars

----------------------------------------------------------------------------
(* mcpClient.js: getClient and callAskChatGPT, called by the callbacks of *)
(* answerWithAgent for their quantifiable questions                       *)

\* variant: getClient without its first line, if (clientPromise) return clientPromise
getClientNoCache(m, urlOk) ==
  [m EXCEPT !.clientPromise = IF urlOk THEN "pending" ELSE "rejected",
            !.nClients = @ + 1,
            !.nConnects = IF urlOk THEN @ + 1 ELSE @]

\* variant: a rejected clientPromise thrown away and the connection tried again
getClientRetry(m, urlOk) ==
  IF m.clientPromise \notin {"null", "rejected"} THEN m
  ELSE [m EXCEPT !.clientPromise = IF urlOk THEN "pending" ELSE "rejected",
                 !.nClients = @ + 1,
                 !.nConnects = IF urlOk THEN @ + 1 ELSE @]

\* getClient, up to its return: the promise is stored before anything is
\* awaited.  new Client(...) is made, then new URL(MCP_URL) throws when the
\* URL is malformed, else client.connect(transport) is begun.
getClient(m, urlOk) ==
  IF m.clientPromise # "null" THEN m
  ELSE [m EXCEPT !.clientPromise = IF urlOk THEN "pending" ELSE "rejected",
                 !.nClients = @ + 1,
                 !.nConnects = IF urlOk THEN @ + 1 ELSE @]

\* the quantifiable questions of a round, each at its knowledge-base call
KbCallers ==
  { startResolve(Task([questionOriginal |-> q, parentOriginal |-> << "a" >>,
                       depth |-> 1], 2)) : q \in { << "c" >>, << "B" >> } }

\* callAskChatGPT([{role: "user", content: qOriginal}]), up to await getClient()
CallAskChatGPT(t, urlOk) ==
  /\ Len(mcp.calls) < MaxCallers
  /\ LET m == getClient(mcp, urlOk) IN
     mcp' = [m EXCEPT !.calls =
               Append(@, [pc |-> "getClient", promise |-> m.nClients, task |-> t,
                          late |-> mcp.clientPromise = "rejected"])]
  /\ UNCHANGED <<engineVars, fnVars, audit, cancelRequested, ui, http>>

\* await client.connect(transport) inside clientPromise settles
ConnectSettles(ok) ==
  /\ mcp.clientPromise = "pending"
  /\ mcp' = [mcp EXCEPT !.clientPromise = IF ok THEN "fulfilled" ELSE "rejected"]
  /\ UNCHANGED <<engineVars, fnVars, audit, cancelRequested, ui, http>>

\* call i ends with the result r of callAskChatGPT, which the try block of
\* the callback takes
callEnds(c, r) ==
  [c EXCEPT !.pc = IF r.threw THEN "threw" ELSE "returned",
            !.task = afterKb(c.task, r)]

\* const client = await getClient()
GetClientSettles(i) ==
  /\ mcp.calls[i].pc = "getClient"
  /\ mcp.clientPromise \in {"fulfilled", "rejected"}
  /\ mcp' = [mcp EXCEPT !.calls[i] =
               IF mcp.clientPromise = "fulfilled" THEN [@ EXCEPT !.pc = "listTools"]
               ELSE callEnds(@, callAskChatGPT([kind |-> "connfail", text |-> <<>>]))]
  /\ UNCHANGED <<engineVars, fnVars, audit, cancelRequested, ui, http>>

\* const tools = await client.listTools(), and the check for ask_chatgpt
ListToolsReturns(i, reply) ==
  /\ mcp.calls[i].pc = "listTools"
  /\ mcp' = [mcp EXCEPT !.calls[i] =
               IF reply = "throw" THEN callEnds(@, [threw |-> TRUE, text |-> <<>>])
               ELSE IF reply = "notool"
               THEN callEnds(@, callAskChatGPT([kind |-> "notool", text |-> <<>>]))
               ELSE [@ EXCEPT !.pc = "callTool"]]
  /\ UNCHANGED <<engineVars, fnVars, audit, cancelRequested, ui, http>>

\* const result = await client.callTool(...), up to the return of the text
CallToolReturns(i, reply) ==
  /\ mcp.calls[i].pc = "callTool"
  /\ mcp' = [mcp EXCEPT !.calls[i] =
               IF reply.kind = "throw" THEN callEnds(@, [threw |-> TRUE, text |-> <<>>])
               ELSE callEnds(@, callAskChatGPT(reply))]
  /\ UNCHANGED <<engineVars, fnVars, audit, cancelRequested, ui, http>>

InitMcp ==
  /\ Idle
  /\ fnInput = <<>>
  /\ fnOutput = NoCall
  /\ Undisturbed

NextMcp ==
  \/ \E t \in KbCallers, urlOk \in BOOLEAN : CallAskChatGPT(t, urlOk)
  \/ \E ok \in BOOLEAN : ConnectSettles(ok)
  \/ \E i \in 1..Len(mcp.calls) : GetClientSettles(i)
  \/ \E i \in 1..Len(mcp.calls), reply \in {"throw", "notool", "tools"} :
       ListToolsReturns(i, reply)
  \/ \E i \in 1..Len(mcp.calls),
        reply \in {[kind |-> "throw", text |-> <<>>]} \cup
                  {[kind |-> "text", text |-> x] : x \in KbTexts} :
       CallToolReturns(i, reply)

SpecMcp == InitMcp /\ [][NextMcp]_vars

----------------------------------------------------------------------------
(* ChatUI.jsx: one chat of the page, sendMessage and its requests.  A call  *)
(* of setChats is taken as applied when it is made; chatsRef.current is     *)
(* brought up to date by the effect, which runs some time after.            *)

\* the block a turn shows: the pending "Thinking..." block, the blocks the
\* server returned, the "No result" block or the "Error" block
PendingBlock == "pending"

\* setDraft(chatId, draft), from the textarea, which is disabled while sending
SetDraft(text) ==
  /\ ~ui.chat.sending
  /\ ui.chat.draft # text
  /\ ui' = [ui EXCEPT !.chat.draft = text]
  /\ UNCHANGED <<engineVars, fnVars, audit, cancelRequested, mcp, http>>

\* useEffect(() => { chatsRef.current = chats }, [chats])
RefRefreshed ==
  /\ ui.chatsRef # ui.chat
  /\ ui' = [ui EXCEPT !.chatsRef = ui.chat]
  /\ UNCHANGED <<engineVars, fnVars, audit, cancelRequested, mcp, http>>

\* prevAbort.abort(): the fetch of the request that holds the controller
\* will reject with an AbortError
aborted(reqs, controller) ==
  [r \in 1..Len(reqs) |->
     IF reqs[r].controller = controller /\ reqs[r].pc = "inflight"
     THEN [reqs[r] EXCEPT !.pc = "aborted"] ELSE reqs[r]]

\* sendMessage(chatId), up to await fetch(...): it returns at once when the
\* chat it reads from chatsRef has a blank draft or is sending
SendMessage ==
  /\ Len(ui.requests) < MaxSends
  /\ LET chat == ui.chatsRef
         text == trim(chat.draft)
         turnId == Len(ui.requests) + 1
         controller == Len(ui.requests) + 1
     IN  /\ text # <<>>
         /\ ~chat.sending
         /\ ui' = [ui EXCEPT
                     !.aborter = controller,
                     !.chat = [@ EXCEPT !.sending = TRUE, !.draft = <<>>,
                                        !.turns = Append(@, [id |-> turnId, userText |-> text,
                                                             blocks |-> PendingBlock])],
                     !.requests = Append(aborted(@, ui.aborter),
                                         [turnId |-> turnId, controller |-> controller,
                                          pc |-> "inflight", outcome |-> "",
                                          history |-> Len(chat.turns)])]
  /\ UNCHANGED <<engineVars, fnVars, audit, cancelRequested, mcp, http>>

\* finally: the controller is taken out of abortersRef if it is still the
\* one stored there
finallyDelete(aborter, controller) == IF aborter = controller THEN 0 ELSE aborter

\* the turn turnId shows blocks b; the other turns are left alone
withBlocks(turns, turnId, b) ==
  [t \in 1..Len(turns) |->
     IF turns[t].id = turnId THEN [turns[t] EXCEPT !.blocks = b] ELSE turns[t]]

\* the outcomes of a request that is not aborted: ok with blocks, ok with no
\* block, ok:false in the body, a status that is not OK, fetch rejected
RequestOutcomes == {"blocks", "noblocks", "notok", "httperr", "neterr"}

\* the request settles: the success branch of the try block, or the catch
\* block with an error that is no AbortError
RequestSettles(i, outcome) ==
  /\ ui.requests[i].pc = "inflight"
  /\ ui' = [ui EXCEPT
              !.requests[i] = [@ EXCEPT !.pc = "settled", !.outcome = outcome],
              !.aborter = finallyDelete(@, ui.requests[i].controller),
              !.chat = [@ EXCEPT !.sending = FALSE,
                                 !.turns = withBlocks(@, ui.requests[i].turnId,
                                             CASE outcome = "blocks" -> "blocks"
                                               [] outcome = "noblocks" -> "No result"
                                               [] OTHER -> "Error")]]
  /\ UNCHANGED <<engineVars, fnVars, audit, cancelRequested, mcp, http>>

\* the fetch of an aborted request rejects: catch with e.name === "AbortError"
AbortSettles(i) ==
  /\ ui.requests[i].pc = "aborted"
  /\ ui' = [ui EXCEPT
              !.requests[i] = [@ EXCEPT !.pc = "settled", !.outcome = "abort"],
              !.aborter = finallyDelete(@, ui.requests[i].controller),
              !.chat = [@ EXCEPT !.sending = FALSE]]
  /\ UNCHANGED <<engineVars, fnVars, audit, cancelRequested, mcp, http>>

InitUi ==
  /\ Idle
  /\ fnInput = <<>>
  /\ fnOutput = NoCall
  /\ Undisturbed

NextUi ==
  \/ \E text \in { << "a" >>, << " " >> } : SetDraft(text)
  \/ RefRefreshed
  \/ SendMessage
  \/ \E i \in 1..Len(ui.requests), outcome \in RequestOutcomes : RequestSettles(i, outcome)
  \/ \E i \in 1..Len(ui.requests) : AbortSettles(i)

SpecUi == InitUi /\ [][NextUi]_vars

----------------------------------------------------------------------------
(* auditAndPolish (crewaudit.js) *)

MAX_POLLS == 20

SLEEP_MS == 500

\* the requests {question, quantifiable, draftAnswer, sources}
AuditRequests ==
  { [quantifiable |-> q, draftAnswer |-> << "x" >>, sources |-> srcs] :
      q \in BOOLEAN, srcs \in { <<>>, << "u1" >> } }

\* process.env: whether CREWAI_BASE_URL and CREWAI_TOKEN are set
AuditEnvs ==
  { [baseUrl |-> TRUE, token |-> TRUE],
    [baseUrl |-> FALSE, token |-> TRUE],
    [baseUrl |-> TRUE, token |-> FALSE] }

\* POST /kickoff: fetch rejects, the status is not OK, the body is no JSON, or
\* the JSON has the task_id given ("" when it has none)
KickoffReplies ==
  { [kind |-> "neterr", taskId |-> ""], [kind |-> "httperr", taskId |-> ""],
    [kind |-> "badjson", taskId |-> ""],
    [kind |-> "json", taskId |-> ""], [kind |-> "json", taskId |-> "t1"] }

\* status.result: an object, a string that parses to that object, a string
\* that does not parse, or nothing; answer and sources are Null when the
\* object has none
Payloads ==
  { [form |-> f, answer |-> a, sources |-> srcs] :
      f \in {"object", "json"}, a \in { Null, <<>>, << "y" >> },
      srcs \in { Null, << "u9" >> } }
    \cup { [form |-> "text", answer |-> Null, sources |-> Null],
           [form |-> "null", answer |-> Null, sources |-> Null] }

\* GET /status/:id: fetch rejects, the status is not OK, the body is no JSON,
\* or the JSON has the status and the result given
StatusReplies ==
  { [kind |-> k, status |-> "", payload |-> [form |-> "null", answer |-> Null, sources |-> Null]] :
      k \in {"neterr", "httperr", "badjson"} }
    \cup { [kind |-> "json", status |-> st,
            payload |-> [form |-> "null", answer |-> Null, sources |-> Null]] :
             st \in {"running", "failed"} }
    \cup { [kind |-> "json", status |-> "completed", payload |-> p] : p \in Payloads }

\* return { ok: true, answer: draftAnswer, sources }
draftOf(a) ==
  [ok |-> TRUE, answer |-> a.request.draftAnswer, sources |-> a.request.sources]

auditReturn(a, res) == [a EXCEPT !.pc = "returned", !.result = res]

\* an await that rejects: auditAndPolish has no try/catch around it
auditThrows(a) == [a EXCEPT !.pc = "threw"]

\* the call, up to its first await or its return
AuditBegin(req, env) ==
  /\ audit.pc = "idle"
  /\ LET a == [audit EXCEPT !.request = req, !.configured = env.baseUrl /\ env.token] IN
     audit' =
       IF ~req.quantifiable
       THEN auditReturn(a, [ok |-> FALSE, answer |-> NOT_ANSWERED, sources |-> <<>>])
       ELSE IF ~env.baseUrl \/ ~env.token
       THEN auditReturn(a, draftOf(a))
       ELSE [a EXCEPT !.pc = "kickoff"]
  /\ UNCHANGED <<engineVars, fnVars, cancelRequested, otherVars>>

\* await fetch(`${baseUrl}/kickoff`) and await kickoffResp.json()
KickoffReturns(reply) ==
  /\ audit.pc = "kickoff"
  /\ LET a == [audit EXCEPT !.kickoff = IF reply.kind = "json" /\ reply.taskId = ""
                                        THEN "notask" ELSE reply.kind] IN
     audit' =
       IF reply.kind \in {"neterr", "badjson"} THEN auditThrows(a)
       ELSE IF reply.kind = "httperr" THEN auditReturn(a, draftOf(a))
       ELSE IF reply.taskId = "" THEN auditReturn(a, draftOf(a))
       ELSE IF 0 < MAX_POLLS THEN [a EXCEPT !.pc = "sleep", !.i = 0]
       ELSE auditReturn(a, draftOf(a))
  /\ UNCHANGED <<engineVars, fnVars, cancelRequested, otherVars>>

\* await sleep(500)
SleepReturns ==
  /\ audit.pc = "sleep"
  /\ audit' = [audit EXCEPT !.pc = "status", !.nSleep = @ + 1, !.elapsed = @ + SLEEP_MS]
  /\ UNCHANGED <<engineVars, fnVars, cancelRequested, otherVars>>

\* the end of one pass of the for loop: i++, and the return after the loop
nextAttempt(a) ==
  IF a.i + 1 < MAX_POLLS
  THEN [a EXCEPT !.pc = "sleep", !.i = @ + 1]
  ELSE auditReturn([a EXCEPT !.i = @ + 1], draftOf(a))

\* let parsed = out; if (typeof out === "string") try { parsed = JSON.parse(out) } catch {}
parsedPayload(out) ==
  IF out.form \in {"object", "json"}
  THEN [answer |-> out.answer, sources |-> out.sources]
  ELSE [answer |-> Null, sources |-> Null]

\* variant: the answer of the payload taken without looking at it
completedAlwaysReplaces(a, out) ==
  LET parsed == parsedPayload(out) IN
  [ok |-> TRUE, answer |-> parsed.answer,
   sources |-> IF parsed.sources # Null THEN parsed.sources ELSE a.request.sources]

\* the result on status "completed"
completedOutcome(a, out) ==
  LET parsed == parsedPayload(out) IN
  IF parsed.answer # Null /\ parsed.answer # <<>>
  THEN [ok |-> TRUE, answer |-> parsed.answer,
        sources |-> IF parsed.sources # Null THEN parsed.sources ELSE a.request.sources]
  ELSE draftOf(a)

\* await fetch(`${baseUrl}/status/${taskId}`) and await statusResp.json()
StatusReturns(reply) ==
  /\ audit.pc = "status"
  /\ LET a == [audit EXCEPT !.nStatus = @ + 1, !.last = reply] IN
     audit' =
       IF reply.kind \in {"neterr", "badjson"} THEN auditThrows(a)
       ELSE IF reply.kind = "httperr" THEN nextAttempt(a)
       ELSE IF reply.status = "completed"
       THEN auditReturn(a, completedOutcome(a, reply.payload))
       ELSE IF reply.status = "failed" THEN auditReturn(a, draftOf(a))
       ELSE nextAttempt(a)
  /\ UNCHANGED <<engineVars, fnVars, cancelRequested, otherVars>>

InitAudit ==
  /\ Idle
  /\ fnInput = <<>>
  /\ fnOutput = NoCall
  /\ Undisturbed

NextAudit ==
  \/ \E req \in AuditRequests, env \in AuditEnvs : AuditBegin(req, env)
  \/ \E reply \in KickoffReplies : KickoffReturns(reply)
  \/ SleepReturns
  \/ \E reply \in StatusReplies : StatusReturns(reply)

SpecAudit == InitAudit /\ [][NextAudit]_vars

----------------------------------------------------------------------------
(* Properties *)

TaskIds == 1..Len(tasks)

\* the places of key k in answered
placesOf(k) == {i \in 1..Len(answered) : answered[i].key = k}

\* the edges from parent key p to child key c
edgesOf(p, c) ==
  IF p \in DOMAIN children
  THEN {x \in 1..Len(children[p]) : children[p][x].key = c}
  ELSE {}

\* C1 (write-once): every key is held at most once by answered and written by
\* at most one answered.set; every key admitted to seen has exactly one
\* resolution callback, started for the first text proposed with that key,
\* and the entry of a key is the one that callback wrote (its question text
\* and its parent), whatever was proposed with the same key afterwards.
WriteOnce ==
  /\ \A k \in seen : Cardinality(placesOf(k)) <= 1
  /\ \A k \in seen : Cardinality({i \in TaskIds : taskKey(tasks[i]) = k}) = 1
  /\ \A i \in TaskIds : tasks[i].nSet <= 1 /\ taskKey(tasks[i]) \in seen
  /\ \A i \in TaskIds :
       /\ tasks[i].nSet = 0 => placesOf(taskKey(tasks[i])) = {}
       /\ tasks[i].nSet = 1 =>
            \E e \in placesOf(taskKey(tasks[i])) :
              /\ answered[e].questionOriginal = tasks[i].qOriginal
              /\ answered[e].parentOriginal = tasks[i].parentOriginal
  /\ \A e \in 1..Len(answered) : answered[e].key \in seen

\* the while loop has ended, by its condition or its break: the run returned,
\* or render threw
loopEnded ==
  /\ pc \in {"returned", "rejected"}
  /\ \A i \in TaskIds : tasks[i].pc = "done"

\* C1 witness: the loop ended, and a key that holds an entry was proposed
\* again as a child under another spelling
WriteOnceWitness ==
  /\ loopEnded
  /\ \E e \in 1..Len(answered), p \in DOMAIN children :
       \E x \in 1..Len(children[p]) :
         /\ children[p][x].key = answered[e].key
         /\ children[p][x].questionOriginal # answered[e].questionOriginal

\* the callbacks whose proposals the edge recording pass has gone through
passedTasks ==
  {i \in TaskIds : tasks[i].pc = "done" /\ (tasks[i].round < round \/ loopEnded)}

\* C2 (edge completeness): once the pass at the head of the loop has run over
\* the proposals of a round, every proposed child, its key in seen or not, has
\* exactly one edge under the key of its parent, carrying a proposed text of
\* that key; and no parent has two edges to one child key.
EdgeCompleteness ==
  /\ \A p \in DOMAIN children : \A x, y \in 1..Len(children[p]) :
       children[p][x].key = children[p][y].key => x = y
  /\ \A i \in passedTasks : \A n \in 1..Len(tasks[i].nextNodes) :
       LET node == tasks[i].nextNodes[n]
           es == edgesOf(normalize(node.parentOriginal), normalize(node.questionOriginal))
       IN  /\ node.parentOriginal = tasks[i].qOriginal
           /\ Cardinality(es) = 1
           /\ \A x \in es : \E m \in 1..Len(tasks[i].nextNodes) :
                children[taskKey(tasks[i])][x].questionOriginal
                  = tasks[i].nextNodes[m].questionOriginal

\* C2 witness: a question proposed, twice, a child whose key is its own (a key
\* already in seen), and the loop ended
EdgeCompletenessWitness ==
  /\ loopEnded
  /\ \E i \in passedTasks : \E n, m \in 1..Len(tasks[i].nextNodes) :
       /\ n # m
       /\ normalize(tasks[i].nextNodes[n].questionOriginal) = taskKey(tasks[i])
       /\ normalize(tasks[i].nextNodes[m].questionOriginal) = taskKey(tasks[i])
       /\ edgesOf(taskKey(tasks[i]), taskKey(tasks[i])) # {}

\* the nodes of the frontier that still await resolution
awaitingResolution ==
  {n \in 1..Len(pocket) : normalize(pocket[n].questionOriginal) \notin seen}

RoundsBounded ==
  /\ round <= MAX_DEPTH + 1
  /\ \A i \in TaskIds : tasks[i].depth = tasks[i].round - 1 /\ tasks[i].depth <= MAX_DEPTH
  /\ pc = "returned" =>
       /\ awaitingResolution = {}
       /\ \A i \in TaskIds : tasks[i].pc = "done"

\* the loop passes answerWithAgent may still make
passesLeft(p, r) ==
  CASE p = "idle" -> MAX_DEPTH + 3
    [] p = "awaiting" -> MAX_DEPTH + 2 - r
    [] OTHER -> 0

\* the awaits a callback may still make
awaitsLeft(t) ==
  CASE t.pc = "classify" -> 5
    [] t.pc = "kb" -> 4
    [] t.pc = "search" -> 3
    [] t.pc = "synth" -> 2
    [] t.pc = "decompose" -> 1
    [] t.pc = "followup" -> 1
    [] OTHER -> 0

RECURSIVE sumAwaits(_)
sumAwaits(ts) == IF ts = <<>> THEN 0 ELSE awaitsLeft(Head(ts)) + sumAwaits(Tail(ts))

\* each step uses up a loop pass, or else an await of some callback
Progress ==
  /\ passesLeft(pc', round') >= 0
  /\ \/ passesLeft(pc', round') < passesLeft(pc, round)
     \/ /\ passesLeft(pc', round') = passesLeft(pc, round)
        /\ sumAwaits(tasks') < sumAwaits(tasks)

\* C3 (termination): at most MAX_DEPTH + 1 rounds are launched, whatever the
\* expansion calls propose, and when the loop has ended no node of the
\* frontier awaits resolution and no callback is pending; every step of a run
\* (a provider call that returns, a round that settles or rejects) decreases
\* the pair (loop passes left, awaits left), so that no run goes on for ever.
Termination == []RoundsBounded /\ [][Progress]_vars

\* C3 witness: the loop ended after MAX_DEPTH + 1 rounds, the last one with
\* two questions
TerminationWitness ==
  /\ pc = "returned"
  /\ round = MAX_DEPTH + 1
  /\ Cardinality({i \in TaskIds : tasks[i].round = round}) = 2

\* C4 (round barrier): a callback of a later round exists only when every
\* callback of the rounds before has completed, its expansion call included,
\* and the loop goes on to its end only when every callback has completed.
RoundBarrier ==
  /\ \A i, j \in TaskIds : tasks[i].round < tasks[j].round => tasks[i].pc = "done"
  /\ pc = "returned" => \A i \in TaskIds : tasks[i].pc = "done"
  /\ \A i \in TaskIds : tasks[i].round <= round

\* C4 witness: a round of two callbacks, one completed and the other awaiting
\* its classification, while the run awaits the round
RoundBarrierWitness ==
  /\ pc = "awaiting"
  /\ \E i, j \in TaskIds :
       /\ tasks[i].round = round /\ tasks[j].round = round
       /\ tasks[i].pc = "done" /\ tasks[j].pc = "classify"

\* C5 (a run never throws): answerWithAgent never rejects, whatever the
\* providers do.
NeverRejects == pc # "rejected"

\* the entry of key k
entryOfKey(k) == answered[CHOOSE e \in placesOf(k) : TRUE]

\* C6 (every question yields a block with some answer text): when the run
\* returned ok:true, every key of seen has exactly one entry, the blocks are
\* the entries in order, and no block has an empty answer.
EveryBlockHasAnswer ==
  (pc = "returned" /\ result.ok) =>
    /\ Len(result.blocks) = Len(answered)
    /\ \A k \in seen : Cardinality(placesOf(k)) = 1
    /\ \A b \in 1..Len(result.blocks) :
         /\ result.blocks[b].question = answered[b].questionOriginal
         /\ result.blocks[b].answer # <<>>

\* the messages of a chat that hold a question: role user, a string content
\* with a character that is no whitespace
usableTurns(chat) ==
  {m \in 1..Len(chat) :
     /\ chat[m].role = "user"
     /\ chat[m].isString
     /\ \E c \in 1..Len(chat[m].content) : ~IsSpace(chat[m].content[c])}

latestUsable(chat) == CHOOSE m \in usableTurns(chat) : \A n \in usableTurns(chat) : n <= m

nothingBuilt ==
  /\ answered = <<>> /\ children = <<>> /\ seen = {} /\ tasks = <<>>
  /\ pocket = <<>> /\ round = 0 /\ totalGenerated = 0

\* the call on a chat: ok:false exactly when the chat has no usable turn,
\* with nothing built and no provider called; otherwise the root question is
\* the trimmed content of the latest usable turn
BeginOutcome(chat) ==
  IF usableTurns(chat) = {}
  THEN /\ pc' = "returned" /\ ~result'.ok /\ result'.error # ""
       /\ nothingBuilt'
  ELSE /\ pc' = "awaiting"
       /\ initialQuestion' = trim(chat[latestUsable(chat)].content)
       /\ Len(tasks') = 1
       /\ tasks'[1].qOriginal = initialQuestion' /\ tasks'[1].parentOriginal = Null
       /\ tasks'[1].depth = 0 /\ tasks'[1].pc = "classify"
       /\ seen' = {normalize(initialQuestion')}

\* C7 (structural error): the call returns ok:false exactly for a chat with
\* no user message whose content is a string with a non-whitespace character,
\* then with no provider called and no state built; the root question is
\* otherwise the trimmed content of the latest such message; and a run that
\* has got past this point never returns ok:false.
StructuralError ==
  /\ [](pc = "returned" /\ ~result.ok => nothingBuilt)
  /\ [][\A chat \in Chats : Begin(chat) => BeginOutcome(chat)]_vars

\* C7 witness: the run returned ok:false with its error
StructuralErrorWitness ==
  pc = "returned" /\ ~result.ok /\ result.error = "No user question found."

\* C8 (non-quantifiable short-circuit): a question classified non-quantifiable
\* has the entry {quantifiable: false, the fixed answer, source null, no
\* sources}, and neither callAskChatGPT nor answerFromWeb is ever called for
\* it; no other entry is non-quantifiable.
NonQuantifiableShortCircuit ==
  /\ \A i \in TaskIds : tasks[i].quantifiable = "no" =>
       /\ tasks[i].nKb = 0 /\ tasks[i].nWeb = 0
       /\ tasks[i].pc \in {"decompose", "done", "threw"}
       /\ placesOf(taskKey(tasks[i])) # {}
       /\ LET e == entryOfKey(taskKey(tasks[i])) IN
            /\ e.quantifiable = FALSE
            /\ e.answer = NOT_ANSWERED
            /\ e.source = "null"
            /\ e.sources = <<>>
  /\ \A e \in 1..Len(answered) : ~answered[e].quantifiable =>
       \E i \in TaskIds : taskKey(tasks[i]) = answered[e].key /\ tasks[i].quantifiable = "no"

\* C8 witness: the run returned with a non-quantifiable root that was
\* decomposed and a non-quantifiable child
NonQuantifiableWitness ==
  /\ pc = "returned"
  /\ \E i, j \in TaskIds :
       /\ tasks[i].depth = 0 /\ tasks[i].quantifiable = "no" /\ tasks[i].nextNodes # <<>>
       /\ tasks[j].depth = 1 /\ tasks[j].quantifiable = "no"

\* C9 (a failed knowledge-base call is a fallback trigger): after a
\* callAskChatGPT that threw, as after one that answered "not found",
\* answerFromWeb has been called exactly once for the question and the
\* callback goes on from there; no callback ever ends on the throw of
\* callAskChatGPT.
KbFailureFallsBack ==
  /\ \A i \in TaskIds : tasks[i].threwAt # "kb"
  /\ \A i \in TaskIds : tasks[i].kb \in {"threw", "notfound"} =>
       /\ tasks[i].nKb = 1 /\ tasks[i].nWeb = 1
       /\ tasks[i].pc \in {"search", "synth", "followup", "done", "threw"}
       /\ tasks[i].pc = "threw" => tasks[i].threwAt \in {"search", "synth", "followup"}
       /\ tasks[i].nSet = 1 => entryOfKey(taskKey(tasks[i])).source = "web"

\* C9 witness: the run returned after a round of two questions, the
\* knowledge-base call of one of them having thrown
KbFailureWitness ==
  /\ pc = "returned"
  /\ \E i, j \in TaskIds :
       /\ i # j /\ tasks[i].round = tasks[j].round
       /\ tasks[i].kb = "threw" /\ tasks[i].pc = "done"

\* the links of the snippets that have one, in order
linksUsed(results) == SelectSeq(results, LAMBDA l : l # "")

\* what C10 says of a quantifiable question, the answer taken from a
\* knowledge-base text being that text, or that text trimmed
FallbackChainFor(trimmed) ==
  \A i \in TaskIds : tasks[i].quantifiable = "yes" =>
    /\ tasks[i].nKb = 1 /\ tasks[i].nWeb <= 1
    /\ tasks[i].nWeb = 1 <=> tasks[i].kb \in {"threw", "notfound"}
    /\ tasks[i].pc = "kb" <=> tasks[i].kb = "none"
    /\ tasks[i].nSet = 1 =>
         LET e == entryOfKey(taskKey(tasks[i])) IN
           /\ e.quantifiable
           /\ tasks[i].kb = "answer" =>
                /\ ~isMcpNotFound(tasks[i].kbText)
                /\ e.source = "mcp"
                /\ e.answer = IF trimmed THEN trim(tasks[i].kbText) ELSE tasks[i].kbText
                /\ e.sources = <<>>
           /\ tasks[i].kb \in {"threw", "notfound"} =>
                /\ e.source = "web"
                /\ e.sources = linksUsed(tasks[i].results)
           /\ pc = "returned" =>
                \A b \in placesOf(taskKey(tasks[i])) : result.blocks[b].sources = e.sources

\* C10 as stated: the answer is the knowledge-base text
FallbackChainAsStated == FallbackChainFor(FALSE)

\* C10 (fallback chain), amended: the knowledge base is called first and the
\* web resolver only after it threw or answered "not found"; a genuine
\* knowledge-base text makes no web call and gives the entry source mcp, that
\* text with its leading and trailing whitespace trimmed as the answer and no
\* sources; a fallback gives source web and the links of the returned snippets
\* that have one, in order.
FallbackChain == FallbackChainFor(TRUE)

\* C10 witness: the run returned with one question answered by the knowledge
\* base and another by the web from snippets of which one has no link
FallbackChainWitness ==
  /\ pc = "returned"
  /\ \E i, j \in TaskIds :
       /\ tasks[i].kb = "answer" /\ tasks[i].pc = "done"
       /\ tasks[j].kb = "notfound" /\ tasks[j].pc = "done"
       /\ Len(tasks[j].results) > Len(linksUsed(tasks[j].results))
       /\ Len(linksUsed(tasks[j].results)) > 1

\* the callbacks whose web fallback failed: searchWeb threw (no key, or an
\* HTTP error), or the synthesis call did
webFailed == {i \in TaskIds : tasks[i].threwAt \in {"search", "synth"}}

\* C11 (a failed web fallback degrades): a question whose web fallback failed
\* has an entry with the answer "No data found." and no sources, and the run
\* does not reject on it.
WebFailureDegrades ==
  /\ \A i \in webFailed :
       /\ placesOf(taskKey(tasks[i])) # {}
       /\ \A e \in placesOf(taskKey(tasks[i])) :
            /\ answered[e].answer = NO_DATA_FOUND
            /\ answered[e].sources = <<>>
  /\ webFailed # {} => pc # "rejected"

\* the callbacks whose web search came back with no snippet
zeroSnippets ==
  {i \in TaskIds : tasks[i].nWeb = 1 /\ tasks[i].nSet = 1 /\ tasks[i].results = <<>>}

\* what C12 says of a web search that returned no snippet, for a given
\* sentinel text
ZeroSnippetsFor(sentinel) ==
  \A i \in zeroSnippets :
    /\ tasks[i].threwAt \notin {"search", "synth"}
    /\ tasks[i].pc \in {"followup", "done", "threw"}
    /\ LET e == entryOfKey(taskKey(tasks[i])) IN
         /\ e.answer = sentinel
         /\ e.source = "web"
         /\ e.sources = <<>>

\* C12 as stated: the answer of the question is "No web results found."
ZeroSnippetsAsStated == ZeroSnippetsFor(<< "No web results found." >>)

\* C12 (zero snippets), amended: when the search returns no snippet for a
\* question that fell back to the web, the resolution does not fail and the
\* entry has source web, no sources and the answer "No data found.".
ZeroSnippets == ZeroSnippetsFor(NO_DATA_FOUND)

\* C12 witness: the run returned with a question whose search gave no snippet
ZeroSnippetsWitness ==
  /\ pc = "returned" /\ result.ok
  /\ \E i \in zeroSnippets : tasks[i].pc = "done" /\ tasks[i].kb = "notfound"

\* text has a line that starts with the label "Sources:", in any case
hasSourcesLine(text) ==
  \E c \in 1..Len(text) :
    /\ Lower(text[c]) = "sources:"
    /\ c = 1 \/ text[c - 1] = "\n"

\* C13 (sources stripping): no answer stored in answered, and no answer of a
\* returned block, has a line that starts with the label "Sources:", whichever
\* resolver the text came from and also when the label is its first line.
NoSourcesLine ==
  /\ \A e \in 1..Len(answered) : ~hasSourcesLine(answered[e].answer)
  /\ (pc = "returned" /\ result.ok) =>
       \A b \in 1..Len(result.blocks) : ~hasSourcesLine(result.blocks[b].answer)

\* text holds the phrase, in any case
contains(text, phrase) == \E c \in 1..Len(text) : Lower(text[c]) = phrase

\* text begins with the marker, in any case
beginsWith(text, marker) == text # <<>> /\ Lower(text[1]) = marker

isEmptyText(text) == text = Null \/ text = <<>>

\* the "not found" phrases that count whatever else the response holds
signalsNotFound(text) ==
  \/ contains(text, "not available in our current document")
  \/ contains(text, "company information file not found")

\* the signals the code looks for after its "policy file not found" line
signalsNotFoundLate(text) ==
  \/ contains(text, "no companies found in the knowledge base")
  \/ beginsWith(text, "error:")

\* C14 as stated: a response is "not found" exactly when it is empty, holds
\* one of the three phrases or begins with "error:", also when it holds
\* "policy file not found".
NotFoundAsStated ==
  fnOutput.returned =>
    (fnOutput.value <=>
       \/ isEmptyText(fnInput)
       \/ signalsNotFound(fnInput)
       \/ signalsNotFoundLate(fnInput))

\* C14 (not-found predicate), amended: a response is "not found" exactly when
\* it is empty, or holds "not available in our current document" or "company
\* information file not found", or, holding no "policy file not found", holds
\* "no companies found in the knowledge base" or begins with "error:".
NotFoundPredicate ==
  fnOutput.returned =>
    (fnOutput.value <=>
       \/ isEmptyText(fnInput)
       \/ signalsNotFound(fnInput)
       \/ /\ ~contains(fnInput, "policy file not found")
          /\ signalsNotFoundLate(fnInput))

\* C14 witness: a response that begins with "Error:" and holds "Policy file
\* not found" was taken for a genuine answer
NotFoundWitness ==
  /\ fnOutput.returned /\ ~fnOutput.value
  /\ ~isEmptyText(fnInput)
  /\ beginsWith(fnInput, "error:")
  /\ contains(fnInput, "policy file not found")

\* the callbacks one of whose classifier or expansion calls threw
providerThrew(at) == {i \in TaskIds : tasks[i].threwAt = at}

\* C15 (provider hard failures fail open): a question whose classifier call
\* threw is treated as non-quantifiable and gets its entry; a question whose
\* decomposer or follow-up call threw completes with no proposed question; and
\* the run does not reject on either.
ProviderFailuresFailOpen ==
  /\ \A i \in providerThrew("classify") :
       /\ tasks[i].quantifiable = "no"
       /\ placesOf(taskKey(tasks[i])) # {}
  /\ \A i \in providerThrew("decompose") \cup providerThrew("followup") :
       /\ tasks[i].pc = "done"
       /\ tasks[i].nextNodes = <<>>
  /\ \A i \in providerThrew("classify") \cup providerThrew("decompose")
                \cup providerThrew("followup") :
       tasks[i].pc # "threw" /\ pc # "rejected"

\* the proposals of an expansion reply that hold a question: the items of an
\* array that are neither null nor blank
proposalsIn(reply) ==
  IF reply.kind # "array" THEN 0
  ELSE Cardinality({n \in 1..Len(reply.items) :
                      /\ reply.items[n] # Null
                      /\ \E c \in 1..Len(reply.items[n]) : ~IsSpace(reply.items[n][c])})

RECURSIVE sumNextNodes(_)
sumNextNodes(ts) ==
  IF ts = <<>> THEN 0 ELSE Len(Head(ts).nextNodes) + sumNextNodes(Tail(ts))

\* an expansion call of callback i returns in this step
expansionReturns(i) ==
  /\ tasks[i].pc \in {"decompose", "followup"}
  /\ tasks'[i].pc \in {"done", "threw"}

\* C16 (generatedCount): totalGenerated is 1 once the root is set up, every
\* expansion call that returns adds the number of its non-blank proposals to
\* it, nothing else changes it, so that it is always 1 plus the number of
\* questions proposed so far, duplicates included, and stats.totalGenerated is
\* that number at the return.
GeneratedCount ==
  /\ []((pc \in {"awaiting", "rejected"} \/ (pc = "returned" /\ result.ok)) =>
          totalGenerated = 1 + sumNextNodes(tasks))
  /\ []((pc = "returned" /\ result.ok) => result.stats.totalGenerated = totalGenerated)
  /\ [][\A i \in 1..Len(tasks), reply \in ExpansionReplies :
          (DecomposerReturns(i, reply) \/ FollowupReturns(i, reply)) =>
            totalGenerated' = totalGenerated + proposalsIn(reply)]_vars
  /\ [][totalGenerated' # totalGenerated =>
          \/ pc = "idle" /\ totalGenerated' = 1
          \/ \E i \in 1..Len(tasks) : expansionReturns(i)]_vars

\* C16 witness: the run returned having counted more questions than it
\* answered, a callback having proposed one question twice
GeneratedCountWitness ==
  /\ pc = "returned" /\ result.ok
  /\ result.stats.totalGenerated >= 3
  /\ result.stats.totalGenerated > Len(answered)
  /\ \E i \in TaskIds : \E n, m \in 1..Len(tasks[i].nextNodes) :
       /\ n # m
       /\ normalize(tasks[i].nextNodes[n].questionOriginal) =
            normalize(tasks[i].nextNodes[m].questionOriginal)

\* the place in answered of the entry callback i wrote
placeOf(i) == CHOOSE e \in placesOf(taskKey(tasks[i])) : TRUE

\* the blocks are the entries of answered, one each, in the order of answered
blocksFollowAnswered ==
  /\ Len(result.blocks) = Len(answered)
  /\ \A b \in 1..Len(answered) :
       /\ result.blocks[b].id = b - 1
       /\ result.blocks[b].question = answered[b].questionOriginal
       /\ result.blocks[b].answer = answered[b].answer
       /\ result.blocks[b].sources = answered[b].sources
  /\ \A b, c \in 1..Len(answered) : answered[b].key = answered[c].key => b = c

\* C17 (block list): at the return the blocks are the entries of answered,
\* one per key, in their order; the first block is the root question; the
\* block of a question of an earlier round precedes the block of a question of
\* a later round; and answered only grows at its end, no entry ever moved or
\* rewritten.
BlockList ==
  /\ []((pc = "returned" /\ result.ok) =>
          /\ blocksFollowAnswered
          /\ result.blocks[1].question = initialQuestion
          /\ \A i, j \in TaskIds :
               tasks[i].round < tasks[j].round => placeOf(i) < placeOf(j))
  /\ [][/\ Len(answered') >= Len(answered)
        /\ SubSeq(answered', 1, Len(answered)) = answered]_vars

\* C17 witness: the run returned three blocks, two of them of the second round
BlockListWitness ==
  /\ pc = "returned" /\ result.ok
  /\ Len(result.blocks) = 3
  /\ Cardinality({i \in TaskIds : tasks[i].round = 2}) = 2

\* callback i writes its entry in this step
writesEntry(i) == tasks[i].nSet = 0 /\ tasks'[i].nSet = 1

\* C18 (completion order within a round): the entry a callback writes when
\* its resolution completes goes to the end of answered, after the entries of
\* the callbacks of its round that completed before, whatever the places of
\* the callbacks in the frontier; the callbacks of the round still resolving
\* have no entry yet.
CompletionOrder ==
  [][\A i \in 1..Len(tasks) : writesEntry(i) =>
       /\ Len(answered') = Len(answered) + 1
       /\ answered'[Len(answered')].key = taskKey(tasks[i])
       /\ \A j \in 1..Len(tasks) :
            (j # i /\ tasks[j].round = tasks[i].round) =>
               IF tasks[j].nSet = 1
               THEN \E e \in 1..Len(answered) : answered'[e].key = taskKey(tasks[j])
               ELSE \A e \in 1..Len(answered') : answered'[e].key # taskKey(tasks[j])]_vars

\* C18 witness: the run returned with two questions of one round whose blocks
\* are in the reverse of their order in the frontier
CompletionOrderWitness ==
  /\ pc = "returned" /\ result.ok
  /\ \E i, j \in TaskIds :
       /\ i < j /\ tasks[i].round = tasks[j].round
       /\ placeOf(j) < placeOf(i)
       /\ result.blocks[placeOf(j)].question = tasks[j].qOriginal
       /\ result.blocks[placeOf(i)].question = tasks[i].qOriginal

RECURSIVE sumExpand(_)
sumExpand(ts) == IF ts = <<>> THEN 0 ELSE Head(ts).nExpand + sumExpand(Tail(ts))

\* C19 (depth bound): an expansion call is made only for a question of depth
\* below MAX_DEPTH; a question resolved in a round has the depth of the round
\* (rounds counted from 0) and at most MAX_DEPTH, as has every node of the
\* frontier; a proposed node has the depth of the proposing question plus one
\* and that question as parent; and, MAX_DEPTH being 1, a run makes at most
\* one expansion call, for the root.
DepthBound ==
  /\ \A i \in TaskIds :
       /\ tasks[i].pc \in {"decompose", "followup"} => tasks[i].depth < MAX_DEPTH
       /\ tasks[i].nExpand > 0 => tasks[i].depth < MAX_DEPTH
       /\ tasks[i].depth = tasks[i].round - 1
       /\ tasks[i].depth <= MAX_DEPTH
       /\ \A n \in 1..Len(tasks[i].nextNodes) :
            /\ tasks[i].nextNodes[n].depth = tasks[i].depth + 1
            /\ tasks[i].nextNodes[n].parentOriginal = tasks[i].qOriginal
  /\ \A n \in 1..Len(pocket) :
       /\ pocket[n].depth <= MAX_DEPTH
       /\ pc = "awaiting" => pocket[n].depth = round - 1
  /\ MAX_DEPTH = 1 =>
       /\ sumExpand(tasks) <= 1
       /\ \A i \in TaskIds : tasks[i].nExpand = 1 =>
            tasks[i].depth = 0 /\ tasks[i].parentOriginal = Null

\* C19 witness: the run returned after the root proposed two questions, which
\* were resolved at depth MAX_DEPTH without an expansion call
DepthBoundWitness ==
  /\ pc = "returned" /\ result.ok
  /\ \E r, i, j \in TaskIds :
       /\ tasks[r].depth = 0 /\ tasks[r].nExpand = 1 /\ Len(tasks[r].nextNodes) = 2
       /\ i # j
       /\ tasks[i].depth = MAX_DEPTH /\ tasks[j].depth = MAX_DEPTH
       /\ tasks[i].nExpand = 0 /\ tasks[j].nExpand = 0
       /\ tasks[i].pc = "done" /\ tasks[j].pc = "done"

\* C20 (expansion kind follows classification): a callback makes at most one
\* expansion call, after it has written its entry; the call is to the
\* decomposer exactly for a question classified non-quantifiable and to the
\* follow-up generator exactly for a question classified quantifiable, the
\* latter with the answer text of the entry just written.
ExpansionKind ==
  \A i \in TaskIds :
    /\ tasks[i].nExpand <= 1
    /\ tasks[i].nExpand = 1 <=> tasks[i].expandedBy \in {"decompose", "followup"}
    /\ tasks[i].nExpand = 0 <=> tasks[i].expandedBy = ""
    /\ tasks[i].pc \in {"decompose", "followup"} => tasks[i].expandedBy = tasks[i].pc
    /\ tasks[i].nExpand = 1 =>
         /\ tasks[i].nSet = 1
         /\ placesOf(taskKey(tasks[i])) # {}
    /\ tasks[i].expandedBy = "decompose" =>
         /\ tasks[i].quantifiable = "no"
         /\ ~entryOfKey(taskKey(tasks[i])).quantifiable
    /\ tasks[i].expandedBy = "followup" =>
         /\ tasks[i].quantifiable = "yes"
         /\ entryOfKey(taskKey(tasks[i])).quantifiable
         /\ tasks[i].followupArg = entryOfKey(taskKey(tasks[i])).answer
    /\ (tasks[i].nSet = 1 /\ tasks[i].depth < MAX_DEPTH) => tasks[i].nExpand = 1

\* C20 witness: the run returned after the follow-up generator, called with
\* the answer the web resolver gave for the root, proposed a question
ExpansionKindWitness ==
  /\ pc = "returned" /\ result.ok
  /\ \E i \in TaskIds :
       /\ tasks[i].expandedBy = "followup"
       /\ tasks[i].kb = "threw"
       /\ tasks[i].followupArg = << "x" >>
       /\ tasks[i].nextNodes # <<>>

\* C21 (bounded fan-out): a resolved question gives the next frontier at most
\* 3 nodes when the follow-up generator expands it and at most 6 when the
\* decomposer does, whatever list the reply carries.
BoundedFanOut ==
  fnOutput.returned =>
    /\ fnOutput.value.by = "followup" => Len(fnOutput.value.nextNodes) <= 3
    /\ fnOutput.value.by = "decompose" => Len(fnOutput.value.nextNodes) <= 6

\* the collaborator of the call is unreachable: the submit request, or the
\* status request last made, failed (no response, or a response that is not OK)
auditUnreachable ==
  \/ audit.kickoff \in {"neterr", "httperr"}
  \/ audit.last.kind \in {"neterr", "httperr"}

\* C22 (audit fail-open): a call of auditAndPolish never throws, and for every
\* request it returns {ok: true, the draft, the sources of the request} when
\* the collaborator is unconfigured or unreachable.
AuditFailOpen ==
  /\ audit.pc # "threw"
  /\ (audit.pc = "returned" /\ (~audit.configured \/ auditUnreachable)) =>
       audit.result = draftOf(audit)

\* the status response carries a payload that parses and has an answer
carriesAnswer(r) ==
  /\ r.kind = "json" /\ r.status = "completed"
  /\ r.payload.form \in {"object", "json"}
  /\ r.payload.answer # Null /\ r.payload.answer # <<>>

\* a terminal status has been seen
terminalSeen(a) == a.last.kind = "json" /\ a.last.status \in {"completed", "failed"}

HandshakeResult ==
  (audit.pc = "returned" /\ audit.configured /\ audit.kickoff = "json") =>
    IF carriesAnswer(audit.last)
    THEN /\ audit.result.ok
         /\ audit.result.answer = audit.last.payload.answer
         /\ audit.result.sources =
              IF audit.last.payload.sources = Null THEN audit.request.sources
              ELSE audit.last.payload.sources
    ELSE /\ audit.result = [ok |-> TRUE, answer |-> audit.request.draftAnswer,
                            sources |-> audit.request.sources]
         /\ \/ terminalSeen(audit)
            \/ audit.nStatus = MAX_POLLS

NoPollAfterTerminal ==
  terminalSeen(audit) =>
    /\ audit'.nStatus = audit.nStatus /\ audit'.nSleep = audit.nSleep
    /\ audit'.result = audit.result /\ audit'.pc = audit.pc

\* C23 (audit handshake outcome): after a submit that gave a task id, the
\* call returns the answer of the payload (with the payload's sources, or the
\* request's when it has none) exactly when the last status seen is
\* "completed" with a payload that parses and has an answer; otherwise it
\* returns the draft and the request's sources with ok true, after a "failed"
\* or "completed" status or after MAX_POLLS status requests.  Nothing is
\* polled after a terminal status.
HandshakeOutcome == []HandshakeResult /\ [][NoPollAfterTerminal]_vars

\* C23 witness: the draft replaced by the answer of a payload without a
\* source list, the sources of the request kept
HandshakeOutcomeWitness ==
  /\ audit.pc = "returned"
  /\ carriesAnswer(audit.last)
  /\ audit.last.payload.sources = Null
  /\ audit.result.answer # audit.request.draftAnswer
  /\ audit.result.sources = audit.request.sources /\ audit.result.sources # <<>>

\* C24 (audit polling is bounded): after a submit that gave a task id there
\* are at most MAX_POLLS status requests, each after one sleep of SLEEP_MS,
\* a response that is not OK counts as an attempt, and the call always ends
\* with a result.
PollingBounded ==
  /\ audit.nStatus <= MAX_POLLS
  /\ audit.nSleep \in {audit.nStatus, audit.nStatus + 1}
  /\ audit.elapsed = SLEEP_MS * audit.nSleep
  /\ audit.pc = "status" => audit.nSleep = audit.nStatus + 1 /\ audit.i = audit.nStatus
  /\ audit.pc = "sleep" => audit.i = audit.nStatus
  /\ audit.nStatus = MAX_POLLS => audit.pc \in {"returned", "threw"}
  /\ audit.kickoff = "json" => audit.pc # "threw"

\* C25 (audit independence): no step of answerWithAgent calls auditAndPolish,
\* so no run reads the collaborator's configuration: the call of
\* auditAndPolish stays where it was before the run, whatever the run does.
AuditIndependence ==
  /\ audit = NoAudit
  /\ audit.pc = "idle" /\ audit.nStatus = 0 /\ audit.kickoff = ""

\* C25 witness: a run went through its expansion loop and returned blocks,
\* and auditAndPolish was never called
AuditIndependenceWitness ==
  /\ pc = "returned" /\ result.ok
  /\ round = MAX_DEPTH + 1
  /\ Len(result.blocks) >= 2
  /\ audit.pc = "idle"

\* the words of a string: its maximal runs of non-whitespace, in lower case
RECURSIVE wordsOf(_, _)
wordsOf(s, word) ==
  IF s = <<>> THEN (IF word = <<>> THEN <<>> ELSE <<word>>)
  ELSE IF IsSpace(Head(s))
       THEN (IF word = <<>> THEN <<>> ELSE <<word>>) \o wordsOf(Tail(s), <<>>)
       ELSE wordsOf(Tail(s), Append(word, Lower(Head(s))))

\* s and t differ only in letter case, in leading or trailing whitespace or
\* in the length of whitespace runs
sameUpToCaseAndSpace(s, t) == wordsOf(Str(s), <<>>) = wordsOf(Str(t), <<>>)

\* C26 (normalization): normalize returns a key for every input, the empty
\* key for null, undefined and ""; normalize of a key is that key; and every
\* string that differs from the input only in letter case, leading or
\* trailing whitespace or the length of whitespace runs has the same key.
Normalization ==
  fnOutput.returned =>
    /\ fnOutput.value.key \in SeqsUpTo({"a", "b", " "}, MaxChars)
    /\ fnInput \in {Null, <<>>} => fnOutput.value.key = <<>>
    /\ fnOutput.value.again = fnOutput.value.key
    /\ \A t \in NormalizeInputs :
         sameUpToCaseAndSpace(fnInput, t) => normalize(t) = fnOutput.value.key

\* C26 witness: normalize returned for a string with a capital and a line
\* break inside; its key differs from the string
NormalizationWitness ==
  /\ fnOutput.returned
  /\ fnInput = << "A", "\n", "b" >>
  /\ fnOutput.value.key = << "a", " ", "b" >>
  /\ \E t \in NormalizeInputs : t # fnInput /\ sameUpToCaseAndSpace(fnInput, t)

\* every knowledge-base call was made with one turn, a user turn holding the
\* question of the callback
SingleTurn ==
  \A i \in TaskIds :
    IF tasks[i].nKb = 0 THEN tasks[i].kbChat = <<>>
    ELSE /\ tasks[i].nKb = 1
         /\ Len(tasks[i].kbChat) = 1
         /\ tasks[i].kbChat[1].role = "user"
         /\ tasks[i].kbChat[1].isString
         /\ tasks[i].kbChat[1].content = tasks[i].qOriginal

\* the latest non-empty user message of the chat, surrounding whitespace aside
latestMessage(chat) == trim(chat[latestUsable(chat)].content)

\* a call on one chat does what the call on any chat with the same latest
\* non-empty user message does
SameMessageSameCall ==
  pc = "idle" =>
    \A c1, c2 \in Chats :
      (/\ usableTurns(c1) # {} /\ usableTurns(c2) # {}
       /\ latestMessage(c1) = latestMessage(c2)) =>
        (Begin(c1) => Begin(c2))

\* C27 (single-turn knowledge-base exchange): every knowledge-base call is
\* made with a chat of exactly one user turn holding the question text; and
\* the call of answerWithAgent leaves the same state, hence the same provider
\* calls and the same result for the same responses, for any two chats with
\* the same latest non-empty user message.
SingleTurnExchange == []SingleTurn /\ [][SameMessageSameCall]_vars

\* C27 witness: the knowledge base called for a proposed question, with that
\* question alone and not the root question it came from
SingleTurnExchangeWitness ==
  /\ \E c1, c2 \in Chats :
       /\ Len(c1) # Len(c2)
       /\ usableTurns(c1) # {} /\ usableTurns(c2) # {}
       /\ latestMessage(c1) = initialQuestion /\ latestMessage(c2) = initialQuestion
  /\ \E i \in TaskIds :
       /\ tasks[i].depth = 1 /\ tasks[i].nKb = 1
       /\ tasks[i].kbChat = << Msg("user", tasks[i].qOriginal) >>
       /\ tasks[i].qOriginal # initialQuestion

\* C28 (cooperative cancellation): once the transport has asked for
\* cancellation no further round is started, and answered holds complete
\* entries, one per key.
CooperativeCancellation ==
  [][cancelRequested =>
       /\ round' = round
       /\ Len(tasks') = Len(tasks)
       /\ \A e, f \in 1..Len(answered') : answered'[e].key = answered'[f].key => e = f]_vars

\* C30 (tree rendering terminates): for every edge table a run builds, the
\* recursive render from the root question returns, a child with the key of
\* its parent or of an ancestor included.
RenderTerminates ==
  pc # "idle" => ~renderOverflows(children, normalize(trim(initialQuestion)), {})

\* the node callback i was launched for
nodeOf(t) == [questionOriginal |-> t.qOriginal, parentOriginal |-> t.parentOriginal,
              depth |-> t.depth, round |-> t.round]

RECURSIVE nodesOf(_, _)
nodesOf(uniq, r) ==
  IF uniq = <<>> THEN <<>>
  ELSE << [questionOriginal |-> Head(uniq).questionOriginal,
           parentOriginal |-> Head(uniq).parentOriginal,
           depth |-> Head(uniq).depth, round |-> r] >> \o nodesOf(Tail(uniq), r)

\* The loop run again from pass r with the frontier pk, taking the proposals
\* of each round from the callbacks in the order they were launched: the edge
\* table, the keys seen, the frontier and the nodes launched it arrives at.
RECURSIVE replay(_, _, _, _)
replay(r, pk, ch, sn) ==
  LET d == dedupPass(pk, ch, sn, <<>>) IN
  IF pk = <<>>
  THEN [children |-> ch, seen |-> sn, pocket |-> pk, nodes |-> <<>>]
  ELSE IF d.uniquePocket = <<>> \/ r > MAX_DEPTH + 1
  THEN [children |-> d.children, seen |-> d.seen, pocket |-> pk, nodes |-> <<>>]
  ELSE IF r = round /\ ~loopEnded
  THEN [children |-> d.children, seen |-> d.seen, pocket |-> pk,
        nodes |-> nodesOf(d.uniquePocket, r)]
  ELSE LET rest == replay(r + 1, flatNextNodes(tasks, r), d.children, d.seen) IN
       [rest EXCEPT !.nodes = nodesOf(d.uniquePocket, r) \o @]

\* the entries the callbacks wrote, in the order the callbacks were launched
RECURSIVE writtenBy(_)
writtenBy(ts) == IF ts = <<>> THEN <<>> ELSE Head(ts).written \o writtenBy(Tail(ts))

\* Everything but the order of answered is determined by what the callbacks
\* hold (the responses they were given), taken in launch order.
ConfluentState ==
  pc # "idle" /\ initialQuestion # <<>> =>
    LET ref == replay(1, << [questionOriginal |-> trim(initialQuestion),
                             parentOriginal |-> Null, depth |-> 0] >>, <<>>, {})
        canon == writtenBy(tasks)
    IN  /\ \A i, j \in TaskIds : taskKey(tasks[i]) = taskKey(tasks[j]) => i = j
        /\ {answered[e] : e \in 1..Len(answered)} = {canon[e] : e \in 1..Len(canon)}
        /\ Len(answered) = Len(canon)
        /\ children = ref.children
        /\ seen = ref.seen
        /\ pocket = ref.pocket
        /\ [i \in TaskIds |-> nodeOf(tasks[i])] = ref.nodes
        /\ totalGenerated = 1 + sumNextNodes(tasks)
        /\ (pc = "returned" /\ result.ok) =>
             /\ result.stats = returned(canon, children, totalGenerated, initialQuestion).stats
             /\ result.rendered = render(canon, children, trim(initialQuestion), 0)
             /\ {result.blocks[b].question : b \in 1..Len(result.blocks)} =
                  {canon[e].questionOriginal : e \in 1..Len(canon)}

\* a step of one callback changes the record of no other callback, and adds
\* to answered at most the entry of its own key
OwnRecordOnly ==
  \A i \in TaskIds :
    (i \in 1..Len(tasks') /\ tasks'[i] # tasks[i]) =>
      /\ \A j \in TaskIds : j # i => tasks'[j] = tasks[j]
      /\ \/ answered' = answered
         \/ /\ Len(answered') = Len(answered) + 1
            /\ SubSeq(answered', 1, Len(answered)) = answered
            /\ answered'[Len(answered')].key = taskKey(tasks[i])

\* C29 (confluence of a round): the keys resolved in a round are pairwise
\* distinct, and the set of answered keys, the entry of each key, the edge
\* table with the order of its edges, the frontier and the stats are what the
\* callbacks' own responses give in launch order, whatever the interleaving;
\* only the order of the entries of answered can differ.
Confluence == []ConfluentState /\ [][OwnRecordOnly]_vars

\* C29 witness: a run returned whose round of two callbacks wrote its entries
\* in the order opposite to the launch order
ConfluenceWitness ==
  /\ pc = "returned" /\ result.ok
  /\ Len(answered) = 3
  /\ answered # writtenBy(tasks)
  /\ \E i, j \in TaskIds :
       i < j /\ tasks[i].round = 2 /\ tasks[j].round = 2 /\ placeOf(j) < placeOf(i)

\* C31 (stats consistency): when the run returned ok:true, questionsAnswered,
\* totalSeen, the number of blocks and the number of keys in seen are one
\* number n, the block ids are 0..n-1 in block order, and totalSeen is at
\* most totalGenerated.
StatsConsistency ==
  (pc = "returned" /\ result.ok) =>
    /\ result.stats.questionsAnswered = Len(result.blocks)
    /\ result.stats.totalSeen = Len(result.blocks)
    /\ Len(result.blocks) = Cardinality(seen)
    /\ \A b \in 1..Len(result.blocks) : result.blocks[b].id = b - 1
    /\ \A b, c \in 1..Len(result.blocks) :
         result.blocks[b].id = result.blocks[c].id => b = c
    /\ result.stats.totalSeen <= result.stats.totalGenerated

\* C31 witness: a run returned two blocks, having generated more questions
\* than it has seen keys
StatsConsistencyWitness ==
  /\ pc = "returned" /\ result.ok
  /\ Cardinality(seen) = 2 /\ Len(result.blocks) = 2
  /\ result.blocks[2].id = 1
  /\ result.stats.totalGenerated > result.stats.totalSeen

\* the keys that hold an entry
answeredKeys == {answered[e].key : e \in 1..Len(answered)}

\* C32 (edge and entry agreement): when the run returned ok:true, every
\* parent key and every child key of the edge table holds an entry, so that
\* no item of the rendered tree is without one; the entry of the root has
\* parentKey null, and the parentKey of every other entry is an answered key
\* with an edge to the key of that entry.
EdgeEntryAgreement ==
  (pc = "returned" /\ result.ok) =>
    /\ \A p \in DOMAIN children :
         /\ p \in answeredKeys
         /\ \A x \in 1..Len(children[p]) : children[p][x].key \in answeredKeys
    /\ \A r \in 1..Len(result.rendered) : result.rendered[r].quantifiable # "unknown"
    /\ \A e \in 1..Len(answered) :
         IF answered[e].key = normalize(initialQuestion)
         THEN answered[e].parentKey = Null
         ELSE /\ answered[e].parentKey \in answeredKeys
              /\ edgesOf(answered[e].parentKey, answered[e].key) # {}

\* C32 witness: a run returned with two edges under the root, one entry per
\* key and three items rendered
EdgeEntryAgreementWitness ==
  /\ pc = "returned" /\ result.ok
  /\ normalize(initialQuestion) \in DOMAIN children
  /\ Len(children[normalize(initialQuestion)]) = 2
  /\ Len(answered) = 3
  /\ Len(result.rendered) = 3

\* C33 (single shared connection): however many calls of callAskChatGPT are
\* under way, at most one client has been created and at most one connection
\* begun, and every call awaits the one promise made with that client.
SharedConnection ==
  /\ mcp.nClients <= 1 /\ mcp.nConnects <= 1
  /\ mcp.calls # <<>> => mcp.nClients = 1 /\ mcp.clientPromise # "null"
  /\ \A i \in 1..Len(mcp.calls) : mcp.calls[i].promise = 1

\* C33 witness: as many calls as the bound allows await the connection at
\* once, with one client made
SharedConnectionWitness ==
  /\ Len(mcp.calls) = MaxCallers
  /\ \A i \in 1..Len(mcp.calls) : mcp.calls[i].pc = "getClient"
  /\ mcp.clientPromise = "pending"
  /\ mcp.nClients = 1 /\ mcp.nConnects = 1

\* a call begun after the connection had failed ends by the cached rejection,
\* and its question goes on to the web resolver
LateCallsFail ==
  \A i \in 1..Len(mcp.calls) :
    mcp.calls[i].late =>
      /\ mcp.clientPromise = "rejected"
      /\ mcp.calls[i].pc \in {"getClient", "threw"}
      /\ mcp.calls[i].pc = "threw" =>
           /\ mcp.calls[i].task.pc = "search"
           /\ mcp.calls[i].task.kb = "threw"
           /\ mcp.calls[i].task.nWeb = 1

NoNewAttempt ==
  mcp.clientPromise = "rejected" =>
    /\ mcp'.clientPromise = "rejected"
    /\ mcp'.nConnects = mcp.nConnects
    /\ mcp'.nClients = mcp.nClients

\* C34 (cached connection failure): once the connection attempt has failed no
\* call makes another attempt; every later call of callAskChatGPT fails with
\* the stored rejection and its question is resolved by the web fallback.
CachedFailure == []LateCallsFail /\ [][NoNewAttempt]_vars

\* C34 witness: the connection failed under a first call, and a call begun
\* afterwards has failed too, its question sent on to the web resolver
CachedFailureWitness ==
  /\ mcp.nConnects = 1 /\ mcp.clientPromise = "rejected"
  /\ Len(mcp.calls) >= 2
  /\ ~mcp.calls[1].late /\ mcp.calls[1].pc = "threw"
  /\ mcp.calls[2].late /\ mcp.calls[2].pc = "threw"
  /\ mcp.calls[2].task.pc = "search"

\* the requests of the chat that are in flight: sent, not settled, not aborted
inFlight == {r \in 1..Len(ui.requests) : ui.requests[r].pc = "inflight"}

\* C35 (one request per chat): at most one request of the chat is in flight,
\* and the chat's sending flag is true exactly while one is.
OneRequestPerChat ==
  /\ Cardinality(inFlight) <= 1
  /\ ui.chat.sending <=> inFlight # {}

\* the turn request r was sent for
turnOf(r) == ui.chat.turns[CHOOSE t \in 1..Len(ui.chat.turns) :
                             ui.chat.turns[t].id = ui.requests[r].turnId]

SettledTurnsResolved ==
  /\ \A r \in 1..Len(ui.requests) :
       IF ui.requests[r].pc = "settled"
       THEN turnOf(r).blocks \in {"blocks", "No result", "Error"}
       ELSE turnOf(r).blocks = PendingBlock
  /\ Len(ui.chat.turns) = Len(ui.requests)

OwnTurnOnly ==
  \A r \in 1..Len(ui.requests) :
    (ui.requests[r].pc # "settled" /\ ui'.requests[r].pc = "settled") =>
      \A t \in 1..Len(ui.chat.turns) :
        ui.chat.turns[t].id # ui.requests[r].turnId => ui'.chat.turns[t] = ui.chat.turns[t]

\* C36 (every turn is resolved): a turn has the pending block from its send
\* until its request settles, by success, HTTP error, network error or abort,
\* and from then on the returned blocks, the "No result" block or the "Error"
\* block; a request that settles changes no turn but its own.
TurnsResolved == []SettledTurnsResolved /\ [][OwnTurnOnly]_vars

\* the messages of the body the handler can use: the entries of a non-empty
\* messages array with a known role and a non-blank string content, or else
\* a non-blank message
usableMessages(body) ==
  IF body.isArray /\ body.messages # <<>>
  THEN {m \in 1..Len(body.messages) :
          /\ body.messages[m].role \in {"user", "assistant", "system"}
          /\ body.messages[m].isString
          /\ \E c \in 1..Len(body.messages[m].content) :
               ~IsSpace(body.messages[m].content[c])}
  ELSE IF body.message # Null /\ \E c \in 1..Len(body.message) : ~IsSpace(body.message[c])
       THEN {0} ELSE {}

hasGoodAnswer(turn) ==
  \E b \in 1..Len(turn.blocks) :
    LET cleaned == stripSanitizedPrefix(turn.blocks[b].answer) IN
    /\ \E c \in 1..Len(cleaned) : ~IsSpace(cleaned[c])
    /\ trim(cleaned) # NOT_ANSWERED
    /\ trim(cleaned) # NOT_ENOUGH_INFORMATION

\* msgs holds, for each turn in order, its user message and then at most one
\* assistant message, which only a turn with a good answer has
RECURSIVE followsTurns(_, _)
followsTurns(msgs, turns) ==
  IF turns = <<>> THEN msgs = <<>>
  ELSE /\ msgs # <<>>
       /\ Head(msgs).role = "user"
       /\ Head(msgs).content = Head(turns).userText
       /\ IF Tail(msgs) # <<>> /\ Head(Tail(msgs)).role = "assistant"
          THEN /\ hasGoodAnswer(Head(turns))
               /\ followsTurns(Tail(Tail(msgs)), Tail(turns))
          ELSE followsTurns(Tail(msgs), Tail(turns))

\* C38 (history payload): the payload ends with the new user text as a user
\* message; before it come, for each earlier turn, the turn's user message
\* and at most one assistant message, present only when the turn has a block
\* whose cleaned answer is non-empty and no sentinel; and the question the
\* engine takes from the payload is the new text.
HistoryPayload ==
  fnOutput.returned =>
    LET msgs == fnOutput.value.messages IN
    /\ msgs # <<>>
    /\ msgs[Len(msgs)].role = "user"
    /\ msgs[Len(msgs)].content = fnInput.text
    /\ followsTurns(SubSeq(msgs, 1, Len(msgs) - 1), fnInput.turns)
    /\ fnOutput.value.question = fnInput.text

\* C38 witness: a payload built from two turns, the first with only sentinel
\* answers and the second with an answer, so that one assistant message is
\* sent
HistoryPayloadWitness ==
  /\ fnOutput.returned
  /\ Len(fnInput.turns) = 2
  /\ ~hasGoodAnswer(fnInput.turns[1]) /\ fnInput.turns[1].blocks[1].answer = NOT_ANSWERED
  /\ hasGoodAnswer(fnInput.turns[2])
  /\ Len(fnOutput.value.messages) = 4
  /\ fnOutput.value.messages[3].role = "assistant"

====
